---- MODULE Spec2Model ----
(***************************************************************************)
(* Model of the graph-based task executor, services/executor.py:run_tasks. *)
(* One behaviour is one call of run_tasks(input_path, tasks, output_path). *)
(* Every loop iteration of run_tasks is one action, chosen by the branch   *)
(* of the if/elif chain that the task's type selects.  The environment     *)
(* (exit status of ffmpeg, answer of the content source, value of          *)
(* hash(str(time.time())) in _temp_path) is a nondeterministic choice.     *)
(* SpecSlots and SpecPlan model the planning side, services/gemini.py: one  *)
(* behaviour is one call of a slot planner function, or one or two passes  *)
(* of validate_and_fix_plan, on inputs drawn from bounded sets.            *)
(***************************************************************************)
EXTENDS Integers, Sequences, FiniteSets, TLC

\* ------------------------------------------------------------------ bounds
\* longest plan drawn from CorePool; plans over TaskPool are one task shorter
MaxTasks == 3
\* number of distinct values of abs(hash(str(time.time()))) % 100000 and of
\* int(time.time()) that the model distinguishes
NumTempIds == 2

TempIds == 1..NumTempIds

\* ------------------------------------------------------------------- paths
\* A path is <<kind, n>>.  input_path lives in the upload directory,
\* every other path in output_path.parent (the scratch directory).
input_path == <<"input", 0>>
output_path == <<"output", 0>>
NoPath == <<"none", 0>>

\* file contents: <<origin, number of transformation steps applied>>
SourceContent == <<"source", 0>>
StockContent == <<"stock", 0>>
PartialContent == <<"partial", 0>>
ConcatContent == <<"concat", 0>>

\* executor.py:232-428, the prefix handed to _temp_path by each branch
StepPrefix(task_type) ==
    CASE task_type = "add_text_overlay" -> "step_text"
      [] task_type = "trim" -> "step_trim"
      [] task_type = "resize" -> "step_resize"
      [] task_type = "change_speed" -> "step_speed"
      [] task_type = "add_subtitles" -> "step_subtitles"
      [] task_type = "add_image_overlay" -> "step_imgoverlay"
      [] task_type = "auto_frame_face" -> "step_face"
      [] task_type = "color_correction" -> "step_color"
      [] task_type = "concat" -> "step_concat"
      [] task_type = "zoompan" -> "step_zoompan"
      [] OTHER -> "step_other"

\* branches of the if/elif chain that resolve one input and run ffmpeg once
SimpleKinds == {"add_text_overlay", "trim", "resize", "change_speed",
                "auto_frame_face", "zoompan"}
FetchKinds == {"fetch_stock_video", "fetch_stock_image"}
RecognizedKinds == SimpleKinds \cup FetchKinds \cup
                   {"add_subtitles", "add_image_overlay", "color_correction", "concat"}

StepPrefixes == {"step_text", "step_trim", "step_resize", "step_speed",
                 "step_subtitles", "step_imgoverlay", "step_face", "step_color",
                 "step_concat", "step_zoompan"}
StockPrefixes == {"stock_video", "stock_image"}

\* _temp_path(base, prefix, suffix): base.parent / f"{prefix}_{n}{suffix}",
\* n = abs(hash(str(time.time()))) % 100000
temp_path(base, prefix, n) == <<prefix, n>>

\* stock.py:_fetch_video/_fetch_image: dest_dir / f"stock_video_{slug}_{int(time.time())}.mp4"
stock_path(media_type, n) == <<IF media_type = "video" THEN "stock_video" ELSE "stock_image", n>>

ScratchPaths == {output_path} \cup ((StepPrefixes \cup StockPrefixes) \X TempIds)
AllPaths == {input_path} \cup ScratchPaths

\* ------------------------------------------------------------------- tasks
\* params carries the facts the branches test:
\*   segments   - params["segments"] is non-empty            (add_subtitles)
\*   image      - params["image_path"] is set and exists     (add_image_overlay)
\*   eq         - some of brightness/contrast/saturation # 0 (color_correction)
\*   clip_paths - legacy params["clip_paths"]                (concat)
\*   query      - params["query"] is non-empty               (fetch_stock_*)
Params0 == [segments |-> TRUE, image |-> TRUE, eq |-> TRUE,
            clip_paths |-> <<>>, query |-> TRUE]

Task(type, output_id, inputs) ==
    [type |-> type, output_id |-> output_id, inputs |-> inputs, params |-> Params0]

\* Scenario C of the specification
ScenarioC == << Task("trim", "clip_a", <<"source">>),
                Task("fetch_stock_video", "broll_1", <<>>),
                Task("trim", "clip_b", <<"source">>),
                Task("concat", "", <<"clip_a", "broll_1", "clip_b">>) >>

\* the tasks that plans of full length are built from
CorePool ==
    { Task("trim", "", <<>>),
      Task("trim", "clip_a", <<"source">>),
      Task("trim", "source", <<>>),
      Task("resize", "", <<"clip_a">>),
      Task("fetch_stock_video", "broll_1", <<>>),
      [Task("color_correction", "", <<>>) EXCEPT !.params.eq = FALSE],
      Task("concat", "", <<"clip_a", "broll_1">>),
      Task("overlay_video", "", <<>>) }

\* the tasks that the shorter plans are built from
TaskPool ==
    CorePool \cup
    { Task("trim", "", <<"missing">>),
      Task("resize", "clip_a", <<"source", "missing">>),
      Task("fetch_stock_image", "", <<"missing">>),
      [Task("fetch_stock_image", "", <<>>) EXCEPT !.params.query = FALSE],
      Task("add_subtitles", "", <<>>),
      [Task("add_subtitles", "", <<>>) EXCEPT !.params.segments = FALSE],
      Task("add_image_overlay", "", <<>>),
      [Task("add_image_overlay", "", <<>>) EXCEPT !.params.image = FALSE],
      Task("color_correction", "", <<>>),
      Task("concat", "", <<>>),
      [Task("concat", "", <<>>) EXCEPT !.params.clip_paths = <<input_path>>] }

RECURSIVE SeqsUpTo(_, _)
SeqsUpTo(S, n) ==
    IF n = 0 THEN {<<>>}
    ELSE LET shorter == SeqsUpTo(S, n - 1)
         IN  shorter \cup {Append(s, x) : s \in {t \in shorter : Len(t) = n - 1}, x \in S}

Plans == SeqsUpTo(CorePool, MaxTasks) \cup SeqsUpTo(TaskPool, MaxTasks - 1) \cup {ScenarioC}

\* ------------------------------------------------------------------- state
VARIABLES
    tasks,          \* the plan handed to run_tasks
    pc,             \* "run" | "done" (returned output_path) | "raised"
    exc,            \* the exception that left run_tasks: [kind, at]
    i,              \* 1-based position of the task the loop is at
    registry,       \* dict output_id -> Path
    current_path,   \* default linear chain pointer
    temp_paths,     \* list of paths recorded for cleanup
    fs,             \* the files that exist: path -> content
    invoked,        \* per task: number of external invocations made for it
    published,      \* history: <<name, path>> of every registry assignment
    log,            \* history: one record per loop iteration
    segments,       \* transcript segments given to the slot planner
    video_duration, \* duration of the video, in hundredths of a second
    rules,          \* the rules dict of the call
    answer,         \* what the collaborator answered to the slot prompt
    plan,           \* the task list given to validate_and_fix_plan
    called,         \* planning functions applied so far, in order
    result,         \* the value the last planning call returned
    outcome,        \* "pending" | "returned" | the exception that was raised
    request,        \* the arguments of a fetch_stock_media call
    sent,           \* history: the searches sent to the content source
    fetched,        \* where the fetch_stock_media call is, and how it ended
    entry,          \* the request an entry point received
    inflight        \* the runs of run_tasks in flight together, and their scratch directory

execVars == <<tasks, pc, exc, i, registry, current_path, temp_paths, fs, invoked,
              published, log>>
fetchVars == <<request, sent, fetched>>
NoEntry == [point |-> "", payload |-> <<>>]
planVars == <<segments, video_duration, rules, answer, plan, called, result,
              outcome, request, sent, fetched, entry, inflight>>
vars == <<tasks, pc, exc, i, registry, current_path, temp_paths, fs, invoked,
          published, log, segments, video_duration, rules, answer, plan, called,
          result, outcome, request, sent, fetched, entry, inflight>>

NoExc == [kind |-> "", at |-> 0]

\* no fetch_stock_media call is being followed
FetchIdle ==
    /\ request = <<>>
    /\ sent = <<>>
    /\ fetched = [at |-> "idle", why |-> ""]

\* no group of concurrent runs is being followed
NoRuns == [runs |-> <<>>, dir |-> <<>>]

RunsIdle == inflight = NoRuns

\* no planning call is part of an executor run
PlannerIdle ==
    /\ FetchIdle
    /\ RunsIdle
    /\ entry = NoEntry
    /\ segments = <<>>
    /\ video_duration = 0
    /\ rules = <<>>
    /\ answer = <<>>
    /\ plan = <<>>
    /\ called = <<>>
    /\ result = <<>>
    /\ outcome = "idle"

Init ==
    /\ tasks \in Plans
    /\ pc = "run"
    /\ exc = NoExc
    /\ i = 1
    /\ registry = [name \in {"source"} |-> input_path]
    /\ current_path = input_path
    /\ temp_paths = <<>>
    /\ fs = [p \in {input_path} |-> SourceContent]
    /\ invoked = [k \in 1..Len(tasks) |-> 0]
    /\ published = << <<"source", input_path>> >>
    /\ log = <<>>
    /\ PlannerIdle

\* ---------------------------------------------------------------- helpers
\* Path.exists()
Exists(files, p) == p \in DOMAIN files

\* a process writes content c to path p, creating or replacing the file
Written(files, p, c) ==
    [q \in DOMAIN files \cup {p} |-> IF q = p THEN c ELSE files[q]]

\* Path.unlink(missing_ok=True)
Removed(files, p) == [q \in DOMAIN files \ {p} |-> files[q]]

Registered(name) == name \in DOMAIN registry

\* run_tasks._resolve_input: only the first name of inputs is looked up
ResolveInputRaises(task) ==
    /\ task.inputs # <<>>
    /\ ~Registered(task.inputs[1])

\* variant: the chain pointer is used whatever inputs says
ResolveInput_Chain(task) == current_path

ResolveInput(task) ==
    IF task.inputs # <<>> THEN registry[task.inputs[1]] ELSE current_path

\* run_tasks._resolve_inputs_list: every name of inputs is looked up
ResolveInputsListRaises(task) ==
    /\ task.inputs # <<>>
    /\ \E k \in 1..Len(task.inputs) : ~Registered(task.inputs[k])

\* variant: the clips are collected in reverse order
ResolveInputsList_Reversed(task) ==
    IF task.inputs # <<>>
    THEN [k \in 1..Len(task.inputs) |-> registry[task.inputs[Len(task.inputs) + 1 - k]]]
    ELSE <<current_path>>

ResolveInputsList(task) ==
    IF task.inputs # <<>>
    THEN [k \in 1..Len(task.inputs) |-> registry[task.inputs[k]]]
    ELSE <<current_path>>

\* what the history records when the loop reaches a task
SomeInputMissing(task) == \E k \in 1..Len(task.inputs) : ~Registered(task.inputs[k])

\* executor.py:166-167 and 178: the registry names that the message of an
\* unresolved-reference failure lists; the concat message lists none
AvailableListed(task, event) ==
    IF event = "unresolved" /\ task.type # "concat" THEN DOMAIN registry ELSE {}

Entry(event, srcs, out) ==
    [idx |-> i, event |-> event, srcs |-> srcs, out |-> out,
     missing |-> SomeInputMissing(tasks[i]), npub |-> Len(published),
     cur |-> current_path, listed |-> AvailableListed(tasks[i], event)]

\* run_tasks._register
RegistryAfter(task, result_path) ==
    IF task.output_id # ""
    THEN [name \in DOMAIN registry \cup {task.output_id} |->
            IF name = task.output_id THEN result_path ELSE registry[name]]
    ELSE registry

\* variant: the chain pointer never moves
CurrentAfter_Stuck(result_path, advance_chain) == current_path

\* variant: advance_chain is ignored, every result becomes the chain pointer
CurrentAfter_Always(result_path, advance_chain) == result_path

CurrentAfter(result_path, advance_chain) ==
    IF advance_chain THEN result_path ELSE current_path

Register(task, result_path, advance_chain) ==
    /\ registry' = RegistryAfter(task, result_path)
    /\ current_path' = CurrentAfter(result_path, advance_chain)
    /\ published' = IF task.output_id # ""
                    THEN Append(published, <<task.output_id, result_path>>)
                    ELSE published

\* variant: a skipped task publishes the current artifact under its output_id
Continue_Registering(event, srcs) ==
    /\ i' = i + 1
    /\ log' = Append(log, Entry(event, srcs, NoPath))
    /\ Register(tasks[i], current_path, FALSE)
    /\ UNCHANGED <<tasks, pc, exc, temp_paths>>

\* variant: a skipped task is looked at again and again
Continue_Stall(event, srcs) == UNCHANGED vars

\* `continue`: the task is skipped
Continue(event, srcs) ==
    /\ i' = i + 1
    /\ log' = Append(log, Entry(event, srcs, NoPath))
    /\ UNCHANGED <<tasks, pc, exc, registry, current_path, temp_paths, published>>

\* variant: the failure is swallowed and the loop goes on
Raise_Swallowed(kind, event, srcs) == Continue(event, srcs)

\* an exception leaves run_tasks: nothing after the raise is executed
Raise(kind, event, srcs) ==
    /\ pc' = "raised"
    /\ exc' = [kind |-> kind, at |-> i]
    /\ log' = Append(log, Entry(event, srcs, NoPath))
    /\ UNCHANGED <<tasks, i, registry, current_path, temp_paths, published>>

\* the content of the artifact a transformation of srcs writes
Transformed(task, srcs) ==
    IF task.type = "concat" THEN ConcatContent
    ELSE <<fs[srcs[1]][1], fs[srcs[1]][2] + 1>>

\* _ffmpeg_run(cmd, task_name) followed by temp_paths.append(out); _register(task, out).
\* direct: the paths given to ffmpeg with -i.  ffmpeg exits with a failure when
\* its output is one of them ("Output same as Input"); otherwise its exit status is
\* the environment's choice ok, and a failed run may leave a partial file at out.
FfmpegStep(task, direct, srcs, out, ok, partial) ==
    /\ invoked' = [invoked EXCEPT ![i] = @ + 1]
    /\ IF ok /\ out \notin direct
       THEN /\ fs' = Written(fs, out, Transformed(task, srcs))
            /\ temp_paths' = Append(temp_paths, out)
            /\ Register(task, out, TRUE)
            /\ i' = i + 1
            /\ log' = Append(log, Entry("ran", srcs, out))
            /\ UNCHANGED <<tasks, pc, exc>>
       ELSE /\ fs' = IF partial /\ out \notin direct
                     THEN Written(fs, out, PartialContent) ELSE fs
            /\ Raise("RuntimeError", "tool_failed", srcs)

AtTask == pc = "run" /\ i <= Len(tasks)

\* ---------------------------------------------------------------- actions
\* executor.py:140-142
EmptyPlan ==
    /\ pc = "run"
    /\ tasks = <<>>
    /\ fs' = Written(fs, output_path, fs[input_path])
    /\ pc' = "done"
    /\ UNCHANGED <<tasks, exc, i, registry, current_path, temp_paths, invoked,
                   published, log>>
    /\ UNCHANGED planVars

\* add_text_overlay, trim, resize, change_speed, auto_frame_face, zoompan
RunSimple ==
    /\ AtTask
    /\ tasks[i].type \in SimpleKinds
    /\ LET task == tasks[i] IN
       IF ResolveInputRaises(task)
       THEN Raise("ValueError", "unresolved", <<>>) /\ UNCHANGED <<fs, invoked>>
       ELSE \E n \in TempIds, ok \in BOOLEAN, partial \in BOOLEAN :
              LET src == ResolveInput(task)
                  out == temp_path(output_path, StepPrefix(task.type), n)
              IN  FfmpegStep(task, {src}, <<src>>, out, ok, partial)
    /\ UNCHANGED planVars

\* executor.py:286-311
RunSubtitles ==
    /\ AtTask
    /\ tasks[i].type = "add_subtitles"
    /\ LET task == tasks[i] IN
       IF ResolveInputRaises(task)
       THEN Raise("ValueError", "unresolved", <<>>) /\ UNCHANGED <<fs, invoked>>
       ELSE IF ~task.params.segments
       THEN Continue("skipped", <<ResolveInput(task)>>) /\ UNCHANGED <<fs, invoked>>
       ELSE \E n \in TempIds, ok \in BOOLEAN, partial \in BOOLEAN :
              LET src == ResolveInput(task)
                  out == temp_path(output_path, StepPrefix(task.type), n)
              IN  FfmpegStep(task, {src}, <<src>>, out, ok, partial)
    /\ UNCHANGED planVars

\* executor.py:313-350
RunImageOverlay ==
    /\ AtTask
    /\ tasks[i].type = "add_image_overlay"
    /\ LET task == tasks[i] IN
       IF ResolveInputRaises(task)
       THEN Raise("ValueError", "unresolved", <<>>) /\ UNCHANGED <<fs, invoked>>
       ELSE IF ~task.params.image
       THEN Continue("skipped", <<ResolveInput(task)>>) /\ UNCHANGED <<fs, invoked>>
       ELSE \E n \in TempIds, ok \in BOOLEAN, partial \in BOOLEAN :
              LET src == ResolveInput(task)
                  out == temp_path(output_path, StepPrefix(task.type), n)
              IN  FfmpegStep(task, {src}, <<src>>, out, ok, partial)
    /\ UNCHANGED planVars

\* executor.py:367-391
RunColorCorrection ==
    /\ AtTask
    /\ tasks[i].type = "color_correction"
    /\ LET task == tasks[i] IN
       IF ResolveInputRaises(task)
       THEN Raise("ValueError", "unresolved", <<>>) /\ UNCHANGED <<fs, invoked>>
       ELSE \E n \in TempIds :
              LET src == ResolveInput(task)
                  out == temp_path(output_path, StepPrefix(task.type), n)
              IN  IF task.params.eq
                  THEN \E ok \in BOOLEAN, partial \in BOOLEAN :
                         FfmpegStep(task, {src}, <<src>>, out, ok, partial)
                  ELSE \* shutil.copy2(src, out)
                       IF src = out
                       THEN Raise("SameFileError", "copy_failed", <<src>>)
                            /\ UNCHANGED <<fs, invoked>>
                       ELSE /\ fs' = Written(fs, out, Transformed(task, <<src>>))
                            /\ temp_paths' = Append(temp_paths, out)
                            /\ Register(task, out, TRUE)
                            /\ i' = i + 1
                            /\ log' = Append(log, Entry("ran", <<src>>, out))
                            /\ UNCHANGED <<tasks, pc, exc, invoked>>
    /\ UNCHANGED planVars

\* executor.py:393-422
RunConcat ==
    /\ AtTask
    /\ tasks[i].type = "concat"
    /\ LET task == tasks[i] IN
       IF ResolveInputsListRaises(task)
       THEN Raise("ValueError", "unresolved", <<>>) /\ UNCHANGED <<fs, invoked>>
       ELSE LET clip_paths_resolved ==
                    IF task.inputs # <<>> THEN ResolveInputsList(task)
                    ELSE SelectSeq(task.params.clip_paths, LAMBDA p : Exists(fs, p))
            IN  IF clip_paths_resolved = <<>>
                THEN Continue("skipped", <<>>) /\ UNCHANGED <<fs, invoked>>
                ELSE \E n \in TempIds, ok \in BOOLEAN, partial \in BOOLEAN :
                       \* ffmpeg reads the list file, not the clips, with -i
                       FfmpegStep(task, {}, clip_paths_resolved,
                                  temp_path(output_path, StepPrefix(task.type), n),
                                  ok, partial)
    /\ UNCHANGED planVars

\* executor.py:441-468 with stock.py:fetch_stock_media.  found: the content
\* source answered with a file; leftover: a failed download left its partial file.
RunFetch ==
    /\ AtTask
    /\ tasks[i].type \in FetchKinds
    /\ LET task == tasks[i]
           media_type == IF task.type = "fetch_stock_video" THEN "video" ELSE "image"
       IN
       IF ~task.params.query
       THEN Continue("skipped", <<>>) /\ UNCHANGED <<fs, invoked>>
       ELSE \E n \in TempIds, found \in BOOLEAN, leftover \in BOOLEAN :
              LET media_path == stock_path(media_type, n) IN
              /\ invoked' = [invoked EXCEPT ![i] = @ + 1]
              /\ IF found
                 THEN /\ fs' = Written(fs, media_path, StockContent)
                      /\ temp_paths' = Append(temp_paths, media_path)
                      /\ Register(task, media_path, FALSE)
                      /\ i' = i + 1
                      /\ log' = Append(log, Entry("ran", <<>>, media_path))
                      /\ UNCHANGED <<tasks, pc, exc>>
                 ELSE /\ fs' = IF leftover
                               THEN Written(fs, media_path, PartialContent) ELSE fs
                      /\ Continue("skipped", <<>>)
    /\ UNCHANGED planVars

\* variant: an unrecognized type aborts the run
SkipUnknown_Raising ==
    /\ AtTask
    /\ tasks[i].type \notin RecognizedKinds
    /\ Raise("ValueError", "unknown", <<>>)
    /\ UNCHANGED <<fs, invoked>>
    /\ UNCHANGED planVars

\* executor.py:470-471
SkipUnknown ==
    /\ AtTask
    /\ tasks[i].type \notin RecognizedKinds
    /\ Continue("unknown", <<>>)
    /\ UNCHANGED <<fs, invoked>>
    /\ UNCHANGED planVars

\* executor.py:473-479
RECURSIVE Unlinked(_, _)
Unlinked(files, paths) ==
    IF paths = <<>> THEN files
    ELSE Unlinked(IF Head(paths) # output_path
                  THEN Removed(files, Head(paths)) ELSE files,
                  Tail(paths))

Finish ==
    /\ pc = "run"
    /\ tasks # <<>>
    /\ i > Len(tasks)
    /\ LET copied == IF current_path # output_path
                     THEN Written(fs, output_path, fs[current_path]) ELSE fs
       IN  fs' = Unlinked(copied, temp_paths)
    /\ pc' = "done"
    /\ UNCHANGED <<tasks, exc, i, registry, current_path, temp_paths, invoked,
                   published, log>>
    /\ UNCHANGED planVars

Next ==
    \/ EmptyPlan
    \/ RunSimple
    \/ RunSubtitles
    \/ RunImageOverlay
    \/ RunColorCorrection
    \/ RunConcat
    \/ RunFetch
    \/ SkipUnknown
    \/ Finish

Spec == Init /\ [][Next]_vars

\* ------------------------------------------------------------------ typing
TypeOK ==
    /\ pc \in {"run", "done", "raised"}
    /\ i \in 1..(Len(tasks) + 1)
    /\ current_path \in AllPaths
    /\ \A name \in DOMAIN registry : registry[name] \in AllPaths
    /\ \A k \in 1..Len(temp_paths) : temp_paths[k] \in ScratchPaths
    /\ DOMAIN fs \subseteq AllPaths

\* ------------------------------------------------------- history operators
Last(seq) == seq[Len(seq)]

\* the path of the latest registration of name among the first n registrations
LastPublished(name, n) ==
    LET ks == {k \in 1..n : published[k][1] = name}
        last == CHOOSE k \in ks : \A j \in ks : j <= k
    IN  published[last][2]

PublishedBefore(name, n) == \E k \in 1..n : published[k][1] = name

\* this step ran the task at position i to completion
RanStep ==
    /\ AtTask
    /\ Len(log') = Len(log) + 1
    /\ Last(log').event = "ran"

Range(seq) == {seq[k] : k \in 1..Len(seq)}

NoInputsAnywhere == \A k \in 1..Len(tasks) : tasks[k].inputs = <<>>

\* the loop iterations that produced a main-chain artifact
ChainEntries ==
    SelectSeq(log, LAMBDA e : e.event = "ran" /\ tasks[e.idx].type \notin FetchKinds)

\* ------------------------------------------------------------------ claims

\* C1: after any run, returned or raised, every transient artifact recorded
\* so far (every path in temp_paths other than output_path) has been deleted.
C1_CleanupOnEveryExit ==
    pc \in {"done", "raised"} =>
        \A k \in 1..Len(temp_paths) :
            temp_paths[k] # output_path => ~Exists(fs, temp_paths[k])

\* C2: a task reached while its inputs name something that is not in the
\* registry makes run_tasks raise the unresolved-reference failure, and no
\* external invocation was made for that task.
C2_MissingInputRaisesFirst ==
    \A k \in 1..Len(log) :
        log[k].missing =>
            /\ log[k].event = "unresolved"
            /\ invoked[log[k].idx] = 0

\* C3: the primary input resolved for a task that declares inputs is the path
\* most recently registered under inputs[1], whatever the chain pointer was.
C3_ResolvesLatestRegistration ==
    \A k \in 1..Len(log) :
        LET task == tasks[log[k].idx] IN
        (task.inputs # <<>> /\ log[k].srcs # <<>>) =>
            /\ PublishedBefore(task.inputs[1], log[k].npub)
            /\ log[k].srcs[1] = LastPublished(task.inputs[1], log[k].npub)

C3_Witness ==
    \E k \in 1..Len(log) :
        /\ log[k].event = "ran"
        /\ Len(tasks[log[k].idx].inputs) = 1
        /\ tasks[log[k].idx].inputs[1] # "source"
        /\ log[k].srcs # <<>>
        /\ log[k].srcs[1] # log[k].cur

C5_FailFastNoRetry ==
    /\ \A k \in 1..Len(tasks) : invoked[k] <= 1
    /\ \A k \in 1..Len(log) :
          log[k].event = "tool_failed" =>
              /\ pc = "raised"
              /\ exc = [kind |-> "RuntimeError", at |-> log[k].idx]
              /\ invoked[log[k].idx] = 1
              /\ \A j \in (log[k].idx + 1)..Len(tasks) : invoked[j] = 0

C5_Witness ==
    /\ pc = "raised"
    /\ exc.kind = "RuntimeError"
    /\ exc.at = 2
    /\ Len(tasks) >= 3
    /\ invoked[1] = 1
    /\ tasks[3].type \in SimpleKinds

\* C6: a fetch that obtained media registers it under its output_id and leaves
\* the chain pointer alone; any other operation that ran sets the chain pointer
\* to the artifact it wrote.
C6_FetchIsSideProducing ==
    [][ RanStep =>
          IF tasks[i].type \in FetchKinds
          THEN /\ current_path' = current_path
               /\ tasks[i].output_id # "" =>
                     /\ tasks[i].output_id \in DOMAIN registry'
                     /\ registry'[tasks[i].output_id] = Last(log').out
          ELSE /\ current_path' = Last(log').out
               /\ Exists(fs', current_path')
               /\ fs'[current_path'] # PartialContent
      ]_vars

C6_Witness ==
    /\ \E k \in 1..Len(log) :
          /\ log[k].event = "ran"
          /\ tasks[log[k].idx].type \in FetchKinds
          /\ "broll_1" \in DOMAIN registry
          /\ registry["broll_1"] = log[k].out
          /\ current_path # log[k].out
    /\ Len(ChainEntries) >= 1
    /\ current_path = Last(ChainEntries).out

\* C7: a task of an unrecognized type changes neither the registry nor the
\* chain pointer nor the recorded transient artifacts, and the loop goes on
\* to the next task.
C7_UnknownTypeSkipped ==
    [][ (AtTask /\ tasks[i].type \notin RecognizedKinds) =>
          /\ registry' = registry
          /\ current_path' = current_path
          /\ temp_paths' = temp_paths
          /\ fs' = fs
          /\ pc' = "run"
          /\ i' = i + 1
      ]_vars

C7_Witness ==
    /\ pc = "done"
    /\ \E k \in 1..Len(log) :
          /\ log[k].event = "unknown"
          /\ k < Len(log)
          /\ log[k + 1].event = "ran"

\* C8: the path _temp_path chooses for a task differs from input_path, from
\* output_path and from every path held in the registry or recorded for
\* cleanup.
C8_TempPathIsFresh ==
    [][ (RanStep /\ tasks[i].type \notin FetchKinds) =>
          Last(log').out \notin
              ({input_path, output_path} \cup Range(temp_paths)
                 \cup {registry[name] : name \in DOMAIN registry})
      ]_vars

\* C9: the registry name source stays bound to the original input.
C9_SourceStaysBound ==
    /\ "source" \in DOMAIN registry
    /\ registry["source"] = input_path

MaxInserts == 3
\* longest list of proposed slots the collaborator answers with
MaxProposals == 2
\* longest task list handed to validate_and_fix_plan beyond Scenario B
MaxPlanLen == 3

\* a key that is absent from a dict (or holds None)
NoTime == -1

Max(a, b) == IF a >= b THEN a ELSE b
Min(a, b) == IF a <= b THEN a ELSE b

\* x.x5 values whose double lies above / below the decimal, so that round(x, 1)
\* goes up / down: 28.05 as parsed, and the sums the code forms from it
\* (28.05 + 4.0, 28.05 + 4.5, 28.05 + 5.0)
InexactTiesUp == {2805}
InexactTiesDown == {3205, 3255, 3305}

\* Python round(x, 1) of a float holding x hundredths: nearest tenth; a tie that
\* the double holds exactly (x.25, x.75) goes to the even tenth
Round1(x) ==
    LET r == x % 10
        down == x - r
        up == x - r + 10
    IN  CASE r < 5 -> down
          [] r > 5 -> up
          [] r = 5 /\ x % 100 \in {25, 75} ->
                 IF (down \div 10) % 2 = 0 THEN down ELSE up
          [] r = 5 /\ x \in InexactTiesUp -> up
          [] r = 5 /\ x \in InexactTiesDown -> down

\* round(num / den, 1) for a float that holds the fraction num / den
RoundFrac(num, den) ==
    IF num % den = 0 THEN Round1(num \div den)
    ELSE LET lo == ((num \div den) \div 10) * 10
         IN  IF 2 * (num - lo * den) < 10 * den THEN lo ELSE lo + 10

\* gemini.py:30-38, with max_inserts as the caller set it
BrollRules(max_inserts) ==
    [max_inserts |-> max_inserts, min_duration |-> 400, max_duration |-> 500,
     min_topic_sec |-> 500, avoid_first |-> 600, avoid_last |-> 800,
     min_gap |-> 1000]

\* (rules["min_duration"] + rules["max_duration"]) / 2
TargetDur(r) == (r.min_duration + r.max_duration) \div 2

Slot(start, end) == [start |-> start, end |-> end]

LastOf(seq) == seq[Len(seq)]

\* ------------------------------------------------ _validate_and_fix_slots
\* sorted(raw_slots, key=lambda s: s["start"]) raises KeyError on a slot
\* without "start"
ValidateSlotsRaises(raw_slots) ==
    \E k \in 1..Len(raw_slots) : raw_slots[k].start = NoTime

\* sorted(..., key=start): stable insertion of slot into an ascending list
RECURSIVE InsertByStart(_, _)
InsertByStart(sorted, slot) ==
    IF sorted = <<>> THEN <<slot>>
    ELSE IF LastOf(sorted).start <= slot.start THEN Append(sorted, slot)
    ELSE Append(InsertByStart(SubSeq(sorted, 1, Len(sorted) - 1), slot),
                LastOf(sorted))

RECURSIVE SortedByStart(_)
SortedByStart(raw_slots) ==
    IF raw_slots = <<>> THEN <<>>
    ELSE InsertByStart(SortedByStart(SubSeq(raw_slots, 1, Len(raw_slots) - 1)),
                       LastOf(raw_slots))

\* gemini.py:217-221: end after the duration clamp
ClampedEnd(start, end, r) ==
    LET dur == end - start
    IN  IF dur < r.min_duration THEN Round1(start + r.min_duration)
        ELSE IF dur > r.max_duration THEN Round1(start + r.max_duration)
        ELSE end

\* variant: a slot is never moved away from the previous one
TooClose_Never(start, valid_slots, r) == FALSE

\* gemini.py:228: the slot starts inside the gap after the previous slot
TooClose(start, valid_slots, r) ==
    /\ valid_slots # <<>>
    /\ start < LastOf(valid_slots).end + r.min_gap

\* variant: every fixed slot is returned
Truncated_All(valid_slots, r) == valid_slots

\* gemini.py:239: valid_slots[:rules["max_inserts"]]
Truncated(valid_slots, r) ==
    SubSeq(valid_slots, 1, Min(Len(valid_slots), r.max_inserts))

\* gemini.py:208-237: the loop over the sorted slots
RECURSIVE FixSlots(_, _, _, _)
FixSlots(rest, valid_slots, duration, r) ==
    IF rest = <<>> THEN valid_slots
    ELSE
      LET slot == Head(rest)
          avoid_end == duration - r.avoid_last
          \* slot.get("end") or round(start + target_dur, 1)
          end0 == IF slot.end # NoTime /\ slot.end # 0 THEN slot.end
                  ELSE Round1(slot.start + TargetDur(r))
          start == Max(slot.start, r.avoid_first)
          end == ClampedEnd(start, Min(end0, avoid_end), r)
          start2 == Round1(LastOf(valid_slots).end + r.min_gap)
          end2 == Round1(start2 + TargetDur(r))
      IN  IF start >= avoid_end \/ end > avoid_end
          THEN FixSlots(Tail(rest), valid_slots, duration, r)
          ELSE IF TooClose(start, valid_slots, r)
          THEN IF end2 > avoid_end
               THEN FixSlots(Tail(rest), valid_slots, duration, r)
               ELSE FixSlots(Tail(rest),
                             Append(valid_slots, Slot(Round1(start2), Round1(end2))),
                             duration, r)
          ELSE FixSlots(Tail(rest),
                        Append(valid_slots, Slot(Round1(start), Round1(end))),
                        duration, r)

\* gemini.py:196-239, for raw_slots that all carry "start"
validate_and_fix_slots(raw_slots, duration, r) ==
    Truncated(FixSlots(SortedByStart(raw_slots), <<>>, duration, r), r)

\* ------------------------------------------------------- find_broll_slots
\* min(boundaries, key=lambda b: abs(b - mid)): the first boundary at the least
\* distance from mid = midN / den, or NoTime when there is none
Dist(b, midN, den) == IF b * den >= midN THEN b * den - midN ELSE midN - b * den

\* variant: the first boundary of the section is taken
RECURSIVE Nearest_First(_, _, _, _)
Nearest_First(boundaries, best, midN, den) ==
    IF boundaries = <<>> THEN best ELSE Head(boundaries)

RECURSIVE Nearest(_, _, _, _)
Nearest(boundaries, best, midN, den) ==
    IF boundaries = <<>> THEN best
    ELSE Nearest(Tail(boundaries),
                 IF best = NoTime \/ Dist(Head(boundaries), midN, den) < Dist(best, midN, den)
                 THEN Head(boundaries) ELSE best,
                 midN, den)

\* gemini.py:264-270: the rounded snap point of section k (0-based), with the
\* section edges and midpoint held as fractions of den = 2 * max_n
SnapStart(segs, duration, r, k) ==
    LET den == 2 * r.max_inserts
        valid_start == r.avoid_first
        valid_end == (duration - r.avoid_last) - TargetDur(r)
        len2 == 2 * (valid_end - valid_start)         \* section_len * den
        section_start == valid_start * den + k * len2
        section_end == section_start + len2
        midN == valid_start * den + ((2 * k + 1) * len2) \div 2
        ends == [j \in 1..Len(segs) |-> segs[j].end]
        boundaries == SelectSeq(ends, LAMBDA b : section_start <= b * den
                                                  /\ b * den <= section_end)
        snap == Nearest(boundaries, NoTime, midN, den)
    IN  IF snap # NoTime THEN Round1(snap) ELSE RoundFrac(midN, den)

\* gemini.py:273-275: the start after the min_gap shift
ShiftedStart(insert_start, slots, r) ==
    IF slots # <<>> /\ insert_start < LastOf(slots).end + r.min_gap
    THEN Round1(LastOf(slots).end + r.min_gap)
    ELSE insert_start

\* gemini.py:263-281: the loop over range(max_n); break once a slot ends late
RECURSIVE PlaceSections(_, _, _, _, _)
PlaceSections(segs, duration, r, k, slots) ==
    IF k >= r.max_inserts THEN slots
    ELSE LET insert_start == ShiftedStart(SnapStart(segs, duration, r, k), slots, r)
             insert_end == Round1(insert_start + TargetDur(r))
         IN  IF insert_end > duration - r.avoid_last THEN slots
             ELSE PlaceSections(segs, duration, r, k + 1,
                                Append(slots, Slot(insert_start, insert_end)))

\* gemini.py:242-284
find_broll_slots(segs, duration, r) ==
    LET valid_start == r.avoid_first
        valid_end == (duration - r.avoid_last) - TargetDur(r)
    IN  IF valid_end <= valid_start \/ segs = <<>> THEN <<>>
        ELSE PlaceSections(segs, duration, r, 0, <<>>)

\* ---------------------------------------------- find_broll_slots_semantic
\* the collaborator's answer: the call or the JSON parse failed, the JSON is
\* not a list, or it is a list of proposed slots
Failed == [kind |-> "failed", slots |-> <<>>]
NonList == [kind |-> "nonlist", slots |-> <<>>]
Proposed(slots) == [kind |-> "list", slots |-> slots]

\* gemini.py:346-351: the answer is replaced by the deterministic fallback
FallsBack(ans) == ans.kind # "list" \/ ans.slots = <<>>

\* gemini.py:354-358: "end" is set from "start" on the slots that have one
Normalised(raw, r) ==
    [k \in 1..Len(raw) |->
        IF raw[k].start = NoTime THEN raw[k]
        ELSE Slot(raw[k].start, Round1(raw[k].start + TargetDur(r)))]

\* gemini.py:360 is outside the try block: its KeyError leaves the function
SemanticRaises(ans, r) ==
    ~FallsBack(ans) /\ ValidateSlotsRaises(Normalised(ans.slots, r))

\* gemini.py:287-369, when it returns
find_broll_slots_semantic(segs, duration, ans, r) ==
    IF FallsBack(ans) THEN find_broll_slots(segs, duration, r)
    ELSE LET validated == validate_and_fix_slots(Normalised(ans.slots, r), duration, r)
         IN  IF Len(validated) < 1 THEN find_broll_slots(segs, duration, r)
             ELSE validated

\* ------------------------------------------------------ inputs of the calls
\* sentence ends of the transcripts (Scenario A has all four)
Boundaries == {1000, 1800, 2500, 4000}

RECURSIVE Ascending(_)
Ascending(S) ==
    IF S = {} THEN <<>>
    ELSE LET m == CHOOSE x \in S : \A y \in S : x <= y
         IN  <<[end |-> m]>> \o Ascending(S \ {m})

SegmentLists == {Ascending(S) : S \in SUBSET Boundaries}

\* 12 s leaves no valid range; 30.06 s is not a whole number of tenths
Durations == {1200, 3006, 4000, 6000}

RuleSets == {BrollRules(n) : n \in 1..MaxInserts}

ProposalPool ==
    { Slot(200, NoTime), Slot(1800, NoTime), Slot(2000, NoTime),
      Slot(2805, NoTime), Slot(4000, NoTime), Slot(1800, 3200),
      Slot(NoTime, NoTime) }

Answers == {Failed, NonList} \cup {Proposed(p) : p \in SeqsUpTo(ProposalPool, MaxProposals)}

\* run_tasks is not running
ExecutorIdle ==
    /\ tasks = <<>>
    /\ pc = "idle"
    /\ exc = NoExc
    /\ i = 1
    /\ registry = [name \in {"source"} |-> input_path]
    /\ current_path = input_path
    /\ temp_paths = <<>>
    /\ fs = [p \in {input_path} |-> SourceContent]
    /\ invoked = <<>>
    /\ published = << <<"source", input_path>> >>
    /\ log = <<>>

InitSlots ==
    /\ ExecutorIdle
    /\ RunsIdle
    /\ FetchIdle
    /\ entry = NoEntry
    /\ segments \in SegmentLists
    /\ video_duration \in Durations
    /\ rules \in RuleSets
    /\ answer \in Answers
    /\ plan = <<>>
    /\ called = <<>>
    /\ result = <<>>
    /\ outcome = "pending"

Returns(fn, value) ==
    /\ called' = Append(called, fn)
    /\ result' = value
    /\ outcome' = "returned"
    /\ UNCHANGED <<segments, video_duration, rules, answer, plan>>
    /\ UNCHANGED <<fetchVars, entry, inflight>>
    /\ UNCHANGED execVars

Raises(fn, kind) ==
    /\ called' = Append(called, fn)
    /\ outcome' = kind
    /\ UNCHANGED <<segments, video_duration, rules, answer, plan, result>>
    /\ UNCHANGED <<fetchVars, entry, inflight>>
    /\ UNCHANGED execVars

\* find_broll_slots(segments, video_duration, rules)
CallFindBrollSlots ==
    /\ outcome = "pending"
    /\ Returns("find_broll_slots", find_broll_slots(segments, video_duration, rules))

\* _validate_and_fix_slots(raw_slots, video_duration, rules) on a proposed list
CallValidateAndFixSlots ==
    /\ outcome = "pending"
    /\ answer.kind = "list"
    /\ IF ValidateSlotsRaises(answer.slots)
       THEN Raises("_validate_and_fix_slots", "KeyError")
       ELSE Returns("_validate_and_fix_slots",
                    validate_and_fix_slots(answer.slots, video_duration, rules))

\* find_broll_slots_semantic(segments, video_duration, client, model, rules)
CallFindBrollSlotsSemantic ==
    /\ outcome = "pending"
    /\ IF SemanticRaises(answer, rules)
       THEN Raises("find_broll_slots_semantic", "KeyError")
       ELSE Returns("find_broll_slots_semantic",
                    find_broll_slots_semantic(segments, video_duration, answer, rules))

\* Python's xs[:n]
FirstN(xs, n) ==
    IF n >= 0 THEN SubSeq(xs, 1, Min(n, Len(xs)))
    ELSE SubSeq(xs, 1, Max(Len(xs) + n, 0))

\* gemini.py:620-621: the optional end slot, the last 6 s of the video
EndSlot(duration) == Slot(Max(0, duration - 600), duration)

\* gemini.py:617-622: the slot list analyze_and_generate_plan puts in the prompt
PromptSlots(segs, duration, r) ==
    FirstN(find_broll_slots(segs, duration, r), r.max_inserts - 1)
        \o <<EndSlot(duration)>>

\* analyze_and_generate_plan up to the prompt (gemini.py:617-624): the slots
\* are computed and max_inserts becomes their number
ComputePromptSlots ==
    /\ outcome = "pending"
    /\ called' = Append(called, "analyze_and_generate_plan")
    /\ result' = PromptSlots(segments, video_duration, rules)
    /\ rules' = [rules EXCEPT !.max_inserts = Len(result')]
    /\ outcome' = "returned"
    /\ UNCHANGED <<segments, video_duration, answer, plan>>
    /\ UNCHANGED <<fetchVars, entry, inflight>>
    /\ UNCHANGED execVars

NextSlots ==
    \/ CallFindBrollSlots
    \/ CallValidateAndFixSlots
    \/ CallFindBrollSlotsSemantic
    \/ ComputePromptSlots

SpecSlots == InitSlots /\ [][NextSlots]_vars

\* the slot planner returned its list
SlotsReturned ==
    /\ outcome = "returned"
    /\ called # <<>>
    /\ called[1] \in {"find_broll_slots", "_validate_and_fix_slots",
                      "find_broll_slots_semantic"}

AvoidEnd == video_duration - rules.avoid_last

\* ------------------------------------------------------ slot planner claims
\* C11: every slot the slot planner returns lasts at least min_duration and at
\* most max_duration.
C11_DurationWithinBounds ==
    SlotsReturned =>
        \A k \in 1..Len(result) :
            /\ rules.min_duration <= result[k].end - result[k].start
            /\ result[k].end - result[k].start <= rules.max_duration

\* C12: every returned slot starts at or after avoid_first and ends at or
\* before video_duration - avoid_last.
C12_InsideValidRange ==
    SlotsReturned =>
        \A k \in 1..Len(result) :
            /\ result[k].start >= rules.avoid_first
            /\ result[k].end <= AvoidEnd

\* C13: the returned slots ascend, and each slot starts at least min_gap after
\* the end of the slot before it.
C13_AscendingWithGap ==
    SlotsReturned =>
        \A k \in 1..(Len(result) - 1) :
            /\ result[k].start < result[k + 1].start
            /\ result[k + 1].start >= result[k].end + rules.min_gap

\* two proposals closer than min_gap were both kept, the second one moved
C13_Witness ==
    /\ SlotsReturned
    /\ called[1] = "_validate_and_fix_slots"
    /\ answer.slots = <<Slot(1800, NoTime), Slot(2000, NoTime)>>
    /\ Len(result) = 2
    /\ result[2].start = result[1].end + rules.min_gap

\* C14: the slot planner never returns more than max_inserts slots, from the
\* deterministic placement or from the collaborator's proposals.
C14_AtMostMaxInserts ==
    SlotsReturned => Len(result) <= rules.max_inserts

\* more proposals passed the fixing loop than max_inserts allows
C14_Witness ==
    /\ SlotsReturned
    /\ called[1] \in {"_validate_and_fix_slots", "find_broll_slots_semantic"}
    /\ ~ValidateSlotsRaises(answer.slots)
    /\ Len(FixSlots(SortedByStart(answer.slots), <<>>, video_duration, rules))
         > rules.max_inserts
    /\ Len(result) = rules.max_inserts

\* Scenario A: 60 s, boundaries at 10, 18, 25 and 40 s, two inserts
ScenarioA ==
    /\ segments = Ascending({1000, 1800, 2500, 4000})
    /\ video_duration = 6000
    /\ rules = BrollRules(2)
    /\ called = <<"find_broll_slots">>
    /\ outcome = "returned"

ScenarioAResult ==
    ScenarioA =>
        /\ Len(result) = 2
        /\ result[1] = Slot(1800, 2250)
        /\ result[2].start = 4000
        /\ result[2].start >= result[1].end + 1000
        /\ \A k \in 1..2 : result[k].start >= 600 /\ result[k].end <= 5200

DeterministicReturned ==
    /\ outcome = "returned"
    /\ called = <<"find_broll_slots">>

\* C15 as stated: Scenario A yields the two slots at 18 s and 40 s, and every
\* slot of the deterministic placement starts at the snap point of its section
\* (the boundary nearest the section midpoint, or the midpoint).
C15_StartIsSnapPoint ==
    /\ ScenarioAResult
    /\ DeterministicReturned =>
         \A k \in 1..Len(result) :
            result[k].start = SnapStart(segments, video_duration, rules, k - 1)

\* C15 amended: Scenario A yields the two slots at 18 s and 40 s, and every slot
\* of the deterministic placement starts at the snap point of its section
\* rounded to a tenth, unless that is less than min_gap after the previous
\* slot's end, in which case it starts exactly min_gap after that end.
C15_StartIsSnapOrShifted ==
    /\ ScenarioAResult
    /\ DeterministicReturned =>
         \A k \in 1..Len(result) :
            LET snap == SnapStart(segments, video_duration, rules, k - 1)
            IN  result[k].start =
                  IF k > 1 /\ snap < result[k - 1].end + rules.min_gap
                  THEN result[k - 1].end + rules.min_gap
                  ELSE snap

\* Scenario A was planned
C15_Witness ==
    /\ ScenarioA
    /\ Len(result) = 2

\* C16: the slot planner never raises: each of its three functions returns a
\* list for every collaborator output.
C16_PlannerNeverRaises ==
    (called # <<>> /\ called[1] \in {"find_broll_slots", "_validate_and_fix_slots",
                                     "find_broll_slots_semantic"})
        => outcome = "returned"

\* =========================================================================
\* Plan validator: services/gemini.py validate_and_fix_plan, on the task dicts
\* that _normalize_task leaves behind.
\* =========================================================================

\* a params value that is JSON null, and one that _parse_time could not parse
\* and _normalize_task therefore left as the string it was
NullTime == -2
TextTime == -3

\* a task dict: output_id "" and stock_id "" stand for an absent key
PlanTask(type, output_id, start_time, end_time, stock_id) ==
    [type |-> type, output_id |-> output_id, start_time |-> start_time,
     end_time |-> end_time, stock_id |-> stock_id, inputs |-> <<>>]

FetchVideo(output_id) == PlanTask("fetch_stock_video", output_id, NoTime, NoTime, "")
FetchImage(output_id) == PlanTask("fetch_stock_image", output_id, NoTime, NoTime, "")
Overlay(start_time, end_time, stock_id) ==
    PlanTask("overlay_video", "", start_time, end_time, stock_id)

Trim(output_id, start_time, end_time) ==
    PlanTask("trim", output_id, start_time, end_time, "")
Concat(inputs) ==
    [PlanTask("concat", "", NoTime, NoTime, "") EXCEPT !.inputs = inputs]

IsFetch(t) == t.type \in {"fetch_stock_video", "fetch_stock_image"}
IsOverlay(t) == t.type = "overlay_video"

\* f"stock_{stock_counter}"
StockNames == <<"stock_1", "stock_2", "stock_3", "stock_4", "stock_5", "stock_6">>

\* gemini.py:384-388: fetch tasks without output_id are numbered in list order
RECURSIVE WithOutputIds(_, _)
WithOutputIds(ts, stock_counter) ==
    IF ts = <<>> THEN <<>>
    ELSE IF IsFetch(Head(ts)) /\ Head(ts).output_id = ""
    THEN <<[Head(ts) EXCEPT !.output_id = StockNames[stock_counter + 1]]>>
         \o WithOutputIds(Tail(ts), stock_counter + 1)
    ELSE <<Head(ts)>> \o WithOutputIds(Tail(ts), stock_counter)

\* gemini.py:395-397: None + 4.0, "0:1x" + 4.0, None - start and "x" - start
\* raise TypeError
DurationRaises(t) ==
    /\ IsOverlay(t)
    /\ \/ t.start_time \in {NullTime, TextTime}
       \/ t.end_time \in {NullTime, TextTime}

PlanRaises(ts) == \E k \in 1..Len(ts) : DurationRaises(ts[k])

\* gemini.py:394-401 on one overlay
FixedDuration(t, r) ==
    LET start == IF t.start_time = NoTime THEN 0 ELSE t.start_time
        end == IF t.end_time = NoTime THEN start + r.min_duration ELSE t.end_time
        dur == end - start
    IN  IF dur < r.min_duration
        THEN [t EXCEPT !.end_time = Round1(start + r.min_duration)]
        ELSE IF dur > r.max_duration
        THEN [t EXCEPT !.end_time = Round1(start + r.max_duration)]
        ELSE t

\* gemini.py:391-401
FixDurations(ts, r) ==
    [k \in 1..Len(ts) |-> IF IsOverlay(ts[k]) THEN FixedDuration(ts[k], r) ELSE ts[k]]

\* gemini.py:404
OverlayIndices(ts) == {k \in 1..Len(ts) : IsOverlay(ts[k])}

\* variant: the last overlay is always dropped
ExcessIndices_Last(ts, r) ==
    {k \in OverlayIndices(ts) : \A j \in OverlayIndices(ts) : j <= k}

\* gemini.py:405-406: the overlays after the first max_inserts ones
ExcessIndices(ts, r) ==
    {k \in OverlayIndices(ts) :
        Cardinality({j \in OverlayIndices(ts) : j < k}) >= r.max_inserts}

\* variant: truncation leaves every fetch in place
DropsFetch_Never(t, excess_stock_ids) == FALSE

\* gemini.py:413: only fetch_stock_video is matched against the removed ids
DropsFetch(t, excess_stock_ids) ==
    t.type = "fetch_stock_video" /\ t.output_id \in excess_stock_ids

RECURSIVE KeepAt(_, _, _, _)
KeepAt(ts, j, excess_indices, excess_stock_ids) ==
    IF j > Len(ts) THEN <<>>
    ELSE (IF j \notin excess_indices /\ ~DropsFetch(ts[j], excess_stock_ids)
          THEN <<ts[j]>> ELSE <<>>)
         \o KeepAt(ts, j + 1, excess_indices, excess_stock_ids)

\* variant: a truncation keeps the fetch and overlay tasks only
Limited_BrollOnly(ts, r) ==
    LET excess_indices == ExcessIndices(ts, r)
        excess_stock_ids == {ts[k].stock_id : k \in excess_indices}
    IN  IF excess_indices = {} THEN ts
        ELSE SelectSeq(KeepAt(ts, 1, excess_indices, excess_stock_ids),
                       LAMBDA t : IsFetch(t) \/ IsOverlay(t))

\* gemini.py:404-415
Limited(ts, r) ==
    LET excess_indices == ExcessIndices(ts, r)
        excess_stock_ids == {ts[k].stock_id : k \in excess_indices}
    IN  IF excess_indices = {} THEN ts
        ELSE KeepAt(ts, 1, excess_indices, excess_stock_ids)

\* variant: the fetch tasks are left as they came
validate_and_fix_plan_NoIds(ts, r) == Limited(FixDurations(ts, r), r)

\* gemini.py:372-419, when it returns
validate_and_fix_plan(ts, r) == Limited(FixDurations(WithOutputIds(ts, 0), r), r)

\* ----------------------------------------------------- inputs of the calls
PlanPool ==
    { FetchVideo("stock_1"), FetchVideo(""), FetchImage("img_1"),
      Overlay(1800, 2250, "stock_1"),
      Overlay(3000, 3100, "img_1"),
      Overlay(4000, 5000, ""),
      Overlay(NoTime, NoTime, "stock_1"),
      Overlay(NullTime, 2250, "stock_1"),
      Overlay(1800, TextTime, ""),
      Overlay(2805, 2900, ""),
      PlanTask("trim", "", 0, 1500, "") }

\* Scenario B: five fetch + insert pairs
ScenarioB ==
    << FetchVideo("stock_1"), Overlay(1000, 1450, "stock_1"),
       FetchVideo("stock_2"), Overlay(2500, 2950, "stock_2"),
       FetchVideo("stock_3"), Overlay(4000, 4450, "stock_3"),
       FetchVideo("stock_4"), Overlay(5500, 5950, "stock_4"),
       FetchVideo("stock_5"), Overlay(7000, 7450, "stock_5") >>

\* a trim + concat assembly: two windows of the source around a fetched clip
Assembly ==
    << Trim("clip_a", 0, 1500), FetchVideo("stock_1"), Trim("clip_b", 2000, 3000),
       Concat(<<"clip_a", "stock_1", "clip_b">>) >>

PlanLists == SeqsUpTo(PlanPool, MaxPlanLen) \cup {ScenarioB, Assembly}

InitPlan ==
    /\ ExecutorIdle
    /\ RunsIdle
    /\ FetchIdle
    /\ entry = NoEntry
    /\ segments = <<>>
    /\ video_duration = 0
    /\ answer = <<>>
    /\ rules \in RuleSets
    /\ plan \in PlanLists
    /\ called = <<>>
    /\ result = <<>>
    /\ outcome = "pending"

\* validate_and_fix_plan(tasks, rules)
CallValidateAndFixPlan ==
    /\ outcome = "pending"
    /\ IF PlanRaises(plan)
       THEN Raises("validate_and_fix_plan", "TypeError")
       ELSE Returns("validate_and_fix_plan", validate_and_fix_plan(plan, rules))

\* validate_and_fix_plan applied to its own output, as gemini.py:710 does
CallValidateAgain ==
    /\ outcome = "returned"
    /\ called = <<"validate_and_fix_plan">>
    /\ plan' = result
    /\ result' = validate_and_fix_plan(result, rules)
    /\ called' = Append(called, "validate_and_fix_plan")
    /\ UNCHANGED <<segments, video_duration, rules, answer, outcome>>
    /\ UNCHANGED <<fetchVars, entry, inflight>>
    /\ UNCHANGED execVars

NextPlan ==
    \/ CallValidateAndFixPlan
    \/ CallValidateAgain

SpecPlan == InitPlan /\ [][NextPlan]_vars

\* the first pass over the input plan returned
FirstPassReturned ==
    /\ outcome = "returned"
    /\ called = <<"validate_and_fix_plan">>

Overlays(ts) == SelectSeq(ts, IsOverlay)
Fetches(ts) == SelectSeq(ts, IsFetch)

\* overlays of the input plan that the first pass removed / kept
RemovedOverlayIds == {plan[k].stock_id : k \in ExcessIndices(plan, rules)}
KeptOverlayIds == {plan[k].stock_id : k \in OverlayIndices(plan) \ ExcessIndices(plan, rules)}

\* what identifies an overlay across the pass (end_time may be repaired)
Ident(ts) == [k \in 1..Len(ts) |-> <<ts[k].start_time, ts[k].stock_id>>]

ScenarioBInput == plan = ScenarioB /\ rules.max_inserts = 3

C18_NoOrphanNoDangling ==
    FirstPassReturned =>
        /\ \A k \in 1..Len(result) :
              (/\ IsOverlay(result[k])
               /\ result[k].stock_id # ""
               /\ \E j \in 1..Len(plan) :
                     IsFetch(plan[j]) /\ plan[j].output_id = result[k].stock_id)
              => \E j \in 1..Len(result) :
                     IsFetch(result[j]) /\ result[j].output_id = result[k].stock_id
        /\ \A k \in 1..Len(result) :
              IsFetch(result[k]) =>
                  ~(/\ result[k].output_id \in RemovedOverlayIds
                    /\ result[k].output_id \notin KeptOverlayIds)

\* C19: validate_and_fix_plan applied to its own output with the same rules
\* returns a plan equal to its input.
C19_Idempotent ==
    (outcome = "returned" /\ Len(called) = 2) => result = plan

\* a second pass ran over a plan holding max_inserts overlays, one of them with
\* the end_time the first pass had repaired
C19_Witness ==
    /\ outcome = "returned"
    /\ Len(called) = 2
    /\ Len(Overlays(plan)) = rules.max_inserts
    /\ \E k \in 1..Len(plan) :
          IsOverlay(plan[k]) /\ plan[k].start_time = 3000 /\ plan[k].end_time = 3400

\* C20: validate_and_fix_plan never raises, whatever task list the normalizer
\* hands it.
C20_ValidatorNeverRaises ==
    (called # <<>> /\ called[1] = "validate_and_fix_plan") => outcome = "returned"

\* =========================================================================
\* Further claims about run_tasks (services/executor.py), under Spec
\* =========================================================================

\* the operation kinds of PLAN_JSON_SCHEMA (gemini.py:126-130)
PlanKinds == RecognizedKinds \cup {"overlay_video"}

\* run_tasks is scheduled until it returns or raises: every external
\* invocation returns
SpecFair == Spec /\ WF_vars(Next)

\* C23: the message of an unresolved-reference failure lists the names that are
\* in the registry, for every operation kind including concat.
C23_MessageListsAvailable ==
    \A k \in 1..Len(log) :
        log[k].event = "unresolved" => log[k].listed = DOMAIN registry

\* C24: a task runs only if every name of its inputs is registered when it is
\* reached; with a missing name at any position, a task of any kind fails as
\* an unresolved reference and nothing is invoked for it.
C24_AllInputsRegistered ==
    \A k \in 1..Len(log) :
        /\ log[k].event = "ran" => ~log[k].missing
        /\ log[k].missing =>
              /\ pc = "raised"
              /\ exc = [kind |-> "ValueError", at |-> log[k].idx]
              /\ invoked[log[k].idx] = 0

\* the run returned: every task was looked at and output_path was written
EndedDone ==
    /\ pc = "done"
    /\ exc = NoExc
    /\ Len(log) = Len(tasks)
    /\ Exists(fs, output_path)
    /\ \A k \in 1..Len(log) : log[k].event \in {"ran", "skipped", "unknown"}

\* the run aborted at the first task that failed
EndedRaised ==
    /\ pc = "raised"
    /\ exc.kind # ""
    /\ Len(log) = exc.at
    /\ LastOf(log).idx = exc.at
    /\ LastOf(log).event \in {"unresolved", "tool_failed", "copy_failed"}
    /\ \A k \in 1..(Len(log) - 1) : log[k].event \in {"ran", "skipped", "unknown"}

\* C25: every run over a finite plan eventually ends, and stays ended, in one
\* of two ways: all tasks processed and the final artifact copied to
\* output_path, or aborted at the first task that failed.
C25_EndsOneOfTwoWays == <>[](EndedDone \/ EndedRaised)

\* a run of three tasks returned although one of them was skipped
C25_Witness ==
    /\ EndedDone
    /\ Len(tasks) = 3
    /\ \E k \in 1..Len(log) : log[k].event = "skipped"

\* log entry k is a fetch for which the content source had no result
FetchMissed(k) ==
    /\ tasks[log[k].idx].type \in FetchKinds
    /\ tasks[log[k].idx].params.query
    /\ tasks[log[k].idx].output_id # ""
    /\ log[k].event = "skipped"

\* log entry m is a task that depends on the artifact of entry k, which nothing
\* else has registered
DependsOn(m, k) ==
    /\ m > k
    /\ tasks[log[k].idx].output_id \in Range(tasks[log[m].idx].inputs)
    /\ ~PublishedBefore(tasks[log[k].idx].output_id, log[m].npub)

\* C26: after a fetch without result, a later task that depends on the fetched
\* artifact is skipped, or the run ends blocked (RenderBlocked), which is
\* neither a tool failure nor an unresolved reference.
C26_DependentSkippedOrBlocked ==
    \A k \in 1..Len(log), m \in 1..Len(log) :
        (FetchMissed(k) /\ DependsOn(m, k)) =>
            \/ log[m].event = "skipped"
            \/ pc = "raised" /\ exc = [kind |-> "RenderBlocked", at |-> log[m].idx]

\* C27: every task whose type is one of the operation kinds of the plan schema,
\* overlay_video included, is handled by a branch of its own and never by the
\* unknown-type skip.
C27_EveryKindHasBranch ==
    \A k \in 1..Len(log) :
        tasks[log[k].idx].type \in PlanKinds => log[k].event # "unknown"

\* =========================================================================
\* Further claims about validate_and_fix_plan, under SpecPlan
\* =========================================================================

OutputIds(ts) == [k \in 1..Len(ts) |-> ts[k].output_id]

\* how many fetch tasks among the first k of ts have no output_id
LackingUpTo(ts, k) ==
    Cardinality({j \in 1..k : IsFetch(ts[j]) /\ ts[j].output_id = ""})

\* the output_id each fetch task of ts is to have, in list order
ExpectedFetchIds(ts) ==
    LET want == [k \in 1..Len(ts) |->
                    IF ts[k].output_id # "" THEN ts[k].output_id
                    ELSE StockNames[LackingUpTo(ts, k)]]
        at == SelectSeq([k \in 1..Len(ts) |-> k], LAMBDA k : IsFetch(ts[k]))
    IN  [n \in 1..Len(at) |-> want[at[n]]]

\* a is b with some elements left out
RECURSIVE IsSubSeq(_, _)
IsSubSeq(a, b) ==
    IF a = <<>> THEN TRUE
    ELSE IF b = <<>> THEN FALSE
    ELSE IF Head(a) = Head(b) THEN IsSubSeq(Tail(a), Tail(b))
    ELSE IsSubSeq(a, Tail(b))

\* C30: after validate_and_fix_plan every fetch_stock_video / fetch_stock_image
\* task has a non-empty output_id: the ones that had none are named stock_1,
\* stock_2, ... in list order and the ones that had one keep it.
C30_FetchOutputIds ==
    FirstPassReturned =>
        /\ \A k \in 1..Len(result) : IsFetch(result[k]) => result[k].output_id # ""
        /\ IsSubSeq(OutputIds(Fetches(result)), ExpectedFetchIds(plan))
        /\ Len(Fetches(result)) = Len(Fetches(plan)) =>
              OutputIds(Fetches(result)) = ExpectedFetchIds(plan)

\* two unnamed fetches around a named one
C30_Witness ==
    /\ FirstPassReturned
    /\ OutputIds(Fetches(plan)) = <<"", "img_1", "">>
    /\ OutputIds(Fetches(result)) = <<"stock_1", "img_1", "stock_2">>

\* =========================================================================
\* Further claims about the slot planner, under SpecSlots
\* =========================================================================

PromptSlotsComputed ==
    /\ outcome = "returned"
    /\ called = <<"analyze_and_generate_plan">>

\* C28: every slot of the list analyze_and_generate_plan hands to the
\* collaborator and whose length it uses as max_inserts (the deterministic
\* slots and the appended end slot) lasts between min_duration and
\* max_duration, starts at or after avoid_first, ends at or before
\* video_duration - avoid_last and starts min_gap after the slot before it.
C28_PromptSlotsSatisfyInvariants ==
    PromptSlotsComputed =>
        /\ rules.max_inserts = Len(result)
        /\ \A k \in 1..Len(result) :
              /\ rules.min_duration <= result[k].end - result[k].start
              /\ result[k].end - result[k].start <= rules.max_duration
              /\ result[k].start >= rules.avoid_first
              /\ result[k].end <= AvoidEnd
        /\ \A k \in 1..(Len(result) - 1) :
              result[k + 1].start >= result[k].end + rules.min_gap

\* C29: find_broll_slots_semantic returns the find_broll_slots result when the
\* collaborator call failed, answered nothing, or no proposed slot survived
\* _validate_and_fix_slots; otherwise it returns exactly what
\* _validate_and_fix_slots made of the proposals, never the raw slots.
C29_FallbackOrValidated ==
    (called # <<>> /\ called[1] = "find_broll_slots_semantic") =>
        /\ outcome = "returned"
        /\ LET fixed == IF answer.kind = "list"
                        THEN validate_and_fix_slots(Normalised(answer.slots, rules),
                                                    video_duration, rules)
                        ELSE <<>>
           IN  result = IF fixed = <<>>
                        THEN find_broll_slots(segments, video_duration, rules)
                        ELSE fixed

\* =========================================================================
\* Content source: services/stock.py fetch_stock_media.  A query string is
\* held as its words and whether a blank follows them.
\* =========================================================================

\* longest list of alternative queries a caller supplies
MaxAlternatives == 2

Query(padded, words) == [padded |-> padded, words |-> words]

\* str.strip()
Strip(q) == [q EXCEPT !.padded = FALSE]

\* a string that is not empty
Truthy(q) == q.padded \/ q.words # <<>>

\* stock.py:85: the words of query.split() longer than three characters
LongWords(q) == SelectSeq(q.words, LAMBDA w : Len(w) > 3)

\* stock.py:79-82: the alternatives that are kept, stripped
AltCandidates(query, alternatives) ==
    LET keep(alt) == Truthy(alt) /\ Truthy(Strip(alt)) /\ alt # query
        kept == SelectSeq(alternatives, keep)
    IN  [k \in 1..Len(kept) |-> Strip(kept[k])]

\* stock.py:85-89: the first two long words, then the first one
Shortened(query) ==
    LET words == LongWords(query)
    IN  (IF Len(words) > 2 THEN <<Query(FALSE, SubSeq(words, 1, 2))>> ELSE <<>>)
        \o (IF Len(words) > 1 THEN <<Query(FALSE, <<words[1]>>)>> ELSE <<>>)

\* stock.py:92-93: the first occurrence of each query is kept
Deduplicated(qs) ==
    LET first(k) == \A j \in 1..(k - 1) : qs[j] # qs[k]
        at == SelectSeq([k \in 1..Len(qs) |-> k], first)
    IN  [n \in 1..Len(at) |-> qs[at[n]]]

\* stock.py:73-93
fallback_queries(query, alternatives) ==
    Deduplicated(<<query>> \o AltCandidates(query, alternatives) \o Shortened(query))

\* ----------------------------------------------------- inputs of the calls
QueryPool ==
    { Query(FALSE, <<"city", "traffic", "night">>),
      Query(TRUE, <<"city", "traffic", "night">>),
      Query(FALSE, <<"city", "at", "night">>),
      Query(FALSE, <<"city">>),
      Query(FALSE, <<"the", "sea">>) }

AlternativePool ==
    { Query(FALSE, <<"city", "traffic">>),
      Query(FALSE, <<"city", "traffic", "night">>),
      Query(TRUE, <<"city", "traffic", "night">>),
      Query(FALSE, <<"night", "skyline">>),
      Query(FALSE, <<>>),
      Query(TRUE, <<>>) }

Requests ==
    [query : QueryPool,
     alternatives : SeqsUpTo(AlternativePool, MaxAlternatives),
     media_type : {"video", "image"},
     api_key : BOOLEAN]

InitFetch ==
    /\ ExecutorIdle
    /\ RunsIdle
    /\ segments = <<>>
    /\ video_duration = 0
    /\ rules = <<>>
    /\ answer = <<>>
    /\ plan = <<>>
    /\ called = <<>>
    /\ result = <<>>
    /\ outcome = "idle"
    /\ entry = NoEntry
    /\ request \in Requests
    /\ sent = <<>>
    /\ fetched = [at |-> "pending", why |-> ""]

Candidates == fallback_queries(request.query, request.alternatives)

\* fetch_stock_media returns None
NoResult(why) == fetched' = [at |-> "none", why |-> why]

FetchStep ==
    UNCHANGED <<request, segments, video_duration, rules, answer, plan, called,
                result, outcome, entry, inflight>>
    /\ UNCHANGED execVars

\* stock.py:58-61: without an API key nothing is searched
CheckApiKey ==
    /\ fetched.at = "pending"
    /\ IF request.api_key
       THEN fetched' = [at |-> "searching", why |-> ""]
       ELSE NoResult("no_api_key")
    /\ UNCHANGED sent
    /\ FetchStep

\* stock.py:104-121 and 152-167, one turn of the loop: the next query is sent;
\* the request raises (caught at stock.py:68-70), finds something or finds
\* nothing
SendQuery ==
    /\ fetched.at = "searching"
    /\ LET n == Len(sent) + 1
       IN  \E ans \in {"results", "empty", "error"} :
             /\ sent' = Append(sent, [query |-> Candidates[n], answer |-> ans])
             /\ CASE ans = "error" -> NoResult("request_failed")
                  [] ans = "results" -> fetched' = [at |-> "picking", why |-> ""]
                  [] ans = "empty" ->
                        IF n = Len(Candidates) THEN NoResult("not_found")
                        ELSE UNCHANGED fetched
    /\ FetchStep

\* stock.py:123-141 and 169-178: the first result is downloaded; a video may
\* have no video_files, and the download may raise (caught at stock.py:68-70)
Download ==
    /\ fetched.at = "picking"
    /\ \E how \in (IF request.media_type = "video"
                   THEN {"ok", "no_video_files", "download_failed"}
                   ELSE {"ok", "download_failed"}) :
          IF how = "ok" THEN fetched' = [at |-> "found", why |-> ""]
          ELSE NoResult(how)
    /\ UNCHANGED sent
    /\ FetchStep

NextFetch ==
    \/ CheckApiKey
    \/ SendQuery
    \/ Download

SpecFetch == InitFetch /\ [][NextFetch]_vars

\* ------------------------------------------------------------ fetch claims
SentQueries == [k \in 1..Len(sent) |-> sent[k].query]

\* the queries a request is to try: the primary one, the usable alternatives
\* in the caller's order, then the shortened forms
IntendedOrder ==
    <<request.query>>
    \o AltCandidates(request.query, request.alternatives)
    \o Shortened(request.query)

\* C22: the queries are tried in order (primary, the caller's alternatives in
\* order, the shortened forms), each distinct query at most once; nothing is
\* sent after the first answer with results; and the fetch reports no result
\* only after the whole list was tried without result.
C22_QueriesInOrderUntilFound ==
    fetched.at # "idle" =>
        /\ IsSubSeq(SentQueries, IntendedOrder)
        /\ \A j \in 1..Len(sent), k \in 1..Len(sent) :
              j # k => sent[j].query # sent[k].query
        /\ \A k \in 1..(Len(sent) - 1) : sent[k].answer # "results"
        /\ fetched.at = "none" =>
              /\ \A q \in Range(IntendedOrder) : q \in Range(SentQueries)
              /\ \A k \in 1..Len(sent) : sent[k].answer = "empty"

\* =========================================================================
\* Entry points that hand a task list to run_tasks: main.py /execute,
\* /process and /broll-apply, and services/render_service.py render_scenario.
\* =========================================================================

\* A timestamp parameter as it stands in a task dict: missing, null, a number
\* (hundredths of a second) or a string. A string is the list of its parts
\* between colons, each a whole number or NotANumber ("01:23" is <<1, 23>>,
\* "soon" is <<NotANumber>>).
NotANumber == -1

Absent == [kind |-> "absent", v |-> 0, parts |-> <<>>]

Null == [kind |-> "null", v |-> 0, parts |-> <<>>]

Num(v) == [kind |-> "num", v |-> v, parts |-> <<>>]

Text(parts) == [kind |-> "text", v |-> 0, parts |-> parts]

\* gemini.py:483-502: None for null; a number as it is; "a:b" as 60a+b and
\* "a:b:c" as 3600a+60b+c when every part is a number; else float(s), which
\* is a number only for a single numeric part; else None (Null here)
parse_time(v) ==
    IF v.kind = "null" THEN Null
    ELSE IF v.kind = "num" THEN v
    ELSE LET p == v.parts
             numeric == \A k \in 1..Len(p) : p[k] # NotANumber
         IN  IF Len(p) = 2 /\ numeric THEN Num(100 * (60 * p[1] + p[2]))
             ELSE IF Len(p) = 3 /\ numeric
             THEN Num(100 * (3600 * p[1] + 60 * p[2] + p[3]))
             ELSE IF Len(p) = 1 /\ numeric THEN Num(100 * p[1])
             ELSE Null

\* an entry of a task list as a client or the collaborator writes it: whether
\* it is a JSON object at all, the key that holds the operation kind, the
\* kind, whether params is filled, and the timestamps in params
RawTask(key, type, filled, start_time, end_time) ==
    [object |-> TRUE, key |-> key, type |-> type, filled |-> filled,
     start_time |-> start_time, end_time |-> end_time]

\* an entry that is not an object (a string, a number, a list)
NonObject ==
    [object |-> FALSE, key |-> "", type |-> "", filled |-> FALSE,
     start_time |-> Absent, end_time |-> Absent]

\* gemini.py:508-511: the keys that _normalize_task renames to "type"
TypeAliases == {"task_type", "action", "step", "operation"}

\* gemini.py:523-527: a timestamp that is present is replaced by its parsed
\* value unless _parse_time returned None
NormalizedTime(v) ==
    IF v = Absent \/ parse_time(v) = Null THEN v ELSE parse_time(v)

\* gemini.py:505-529
normalize_task(t) ==
    [t EXCEPT !.key = IF t.key \in TypeAliases THEN "type" ELSE t.key,
              !.start_time = NormalizedTime(t.start_time),
              !.end_time = NormalizedTime(t.end_time)]

\* gemini.py:532-548, on the task list of the response: the entries that are
\* objects, each normalised
normalize_gemini_response(ts) ==
    LET objects == SelectSeq(ts, LAMBDA t : t.object)
    IN  [k \in 1..Len(objects) |-> normalize_task(objects[k])]

\* schemas/tasks.py:39-50
TaskType == {"add_text_overlay", "trim", "resize", "change_speed", "add_subtitles",
             "add_image_overlay", "auto_frame_face", "color_correction", "concat",
             "zoompan"}

\* gemini.py:685: PlanResponse.model_validate rejects a task without type or
\* with a type outside TaskType
ModelValidateRaises(ts) ==
    \E k \in 1..Len(ts) : ts[k].key # "type" \/ ts[k].type \notin TaskType

\* gemini.py:702-709: a fetch and an overlay for every prompt slot
RECURSIVE Synthesized(_, _)
Synthesized(slots, k) ==
    IF k > Len(slots) THEN <<>>
    ELSE << FetchVideo(StockNames[k]),
            Overlay(slots[k].start, slots[k].end, StockNames[k]) >>
         \o Synthesized(slots, k + 1)

\* ----------------------------------------------------- inputs of the calls
RawPool ==
    { RawTask("type", "trim", TRUE, Absent, Absent),
      RawTask("action", "trim", TRUE, Num(500), Text(<<1, 23>>)),
      RawTask("kind", "resize", TRUE, Absent, Absent),
      RawTask("type", "overlay_video", TRUE, Text(<<0, 0, 12>>), Null),
      RawTask("type", "concat", FALSE, Absent, Absent),
      RawTask("type", "add_text_overlay", TRUE, Text(<<3>>), Text(<<NotANumber>>)) }

\* main.py:56-58: the tasks of an /execute request are JSON objects
RawLists == SeqsUpTo(RawPool, MaxPlanLen)

\* what the collaborator may answer: the entries need not be objects
AnswerLists == SeqsUpTo(RawPool \cup {NonObject}, MaxPlanLen)

\* a slot of a /broll-apply request (main.py:163-171)
ApplySlots == [enabled : BOOLEAN, mode : {"stock", "ai"}]

\* a B-roll segment of a scenario: its clip is already an asset or not
BrollSegments == [prefetched : BOOLEAN]

EntryRequests ==
    [point : {"/execute"}, payload : RawLists]
    \cup [point : {"/process"}, payload : AnswerLists]
    \cup [point : {"/broll-apply"}, payload : SeqsUpTo(ApplySlots, MaxPlanLen)]
    \cup [point : {"render_scenario"}, payload : SeqsUpTo(BrollSegments, MaxPlanLen)]

InitEntry ==
    /\ ExecutorIdle
    /\ RunsIdle
    /\ FetchIdle
    /\ segments = Ascending(Boundaries)
    /\ video_duration \in Durations
    /\ rules \in RuleSets
    /\ answer = <<>>
    /\ plan = <<>>
    /\ called = <<>>
    /\ result = <<>>
    /\ outcome = "pending"
    /\ entry \in EntryRequests

\* the handler ends at `stages`, its last call having ended as `how`; list is
\* what it handed to run_tasks, if it got that far
Handled(stages, how, list) ==
    /\ called' = stages
    /\ outcome' = how
    /\ result' = list
    /\ UNCHANGED <<segments, video_duration, entry, inflight>>
    /\ UNCHANGED fetchVars
    /\ UNCHANGED execVars

\* main.py:105-128: the client's list goes to run_tasks as it came
Execute ==
    /\ outcome = "pending"
    /\ entry.point = "/execute"
    /\ Handled(<<"/execute", "run_tasks">>, "run_tasks", entry.payload)
    /\ UNCHANGED <<answer, plan, rules>>

\* main.py:131-155 with gemini.py:617-723: the collaborator's list is
\* normalised and validated against the schema; reading inputs / output_id of
\* a schemas.tasks.Task raises AttributeError (gemini.py:688-692), so only an
\* empty list gets further; the tasks synthesized from the prompt slots are
\* validated and go to run_tasks. answer keeps the collaborator's list as
\* _normalize_gemini_response left it.
Process ==
    /\ outcome = "pending"
    /\ entry.point = "/process"
    /\ answer' = normalize_gemini_response(entry.payload)
    /\ LET normalised == normalize_gemini_response(entry.payload)
           slots == PromptSlots(segments, video_duration, rules)
           r == [rules EXCEPT !.max_inserts = Len(slots)]
           first == validate_and_fix_plan(<<>>, r)
           synthesized == first \o Synthesized(slots, 1)
           upto == <<"/process", "_normalize_gemini_response",
                     "PlanResponse.model_validate">>
       IN  IF ModelValidateRaises(normalised)
           THEN Handled(upto, "ValidationError", <<>>) /\ UNCHANGED <<plan, rules>>
           ELSE IF normalised # <<>>
           THEN Handled(upto, "AttributeError", <<>>) /\ UNCHANGED <<plan, rules>>
           ELSE /\ Handled(upto \o <<"validate_and_fix_plan", "validate_and_fix_plan",
                                     "run_tasks">>,
                           "run_tasks", validate_and_fix_plan(synthesized, r))
                /\ plan' = synthesized
                /\ rules' = r

\* main.py:197-300: no enabled slot is a 400; a clip is generated (ai, when
\* generate_video_clip succeeds) or fetched with fetch_stock_media(...,
\* max_width=...), which raises TypeError (stock.py:45-52 has no max_width);
\* run_tasks(..., initial_registry=...) raises TypeError as well
\* (executor.py:130 has no initial_registry)
BrollApply ==
    /\ outcome = "pending"
    /\ entry.point = "/broll-apply"
    /\ LET enabled_slots == SelectSeq(entry.payload, LAMBDA s : s.enabled)
       IN  IF enabled_slots = <<>>
           THEN Handled(<<"/broll-apply">>, "HTTP 400", <<>>)
           ELSE \E generated \in [1..Len(enabled_slots) -> BOOLEAN] :
                  IF \E k \in 1..Len(enabled_slots) :
                        enabled_slots[k].mode # "ai" \/ ~generated[k]
                  THEN Handled(<<"/broll-apply", "fetch_stock_media">>, "TypeError", <<>>)
                  ELSE Handled(<<"/broll-apply", "run_tasks">>, "TypeError", <<>>)
    /\ UNCHANGED <<answer, plan, rules>>

\* render_service.py:186-318: a segment without a usable asset is fetched with
\* fetch_stock_media(..., max_width=...), which raises TypeError; otherwise
\* run_tasks(..., initial_registry=...) raises TypeError
RenderScenario ==
    /\ outcome = "pending"
    /\ entry.point = "render_scenario"
    /\ \E has_asset \in BOOLEAN :
          IF ~has_asset
          THEN Handled(<<"render_scenario">>, "ValueError", <<>>)
          ELSE IF \E k \in 1..Len(entry.payload) : ~entry.payload[k].prefetched
          THEN Handled(<<"render_scenario", "fetch_stock_media">>, "TypeError", <<>>)
          ELSE Handled(<<"render_scenario", "scenario_to_render_tasks", "run_tasks">>,
                       "TypeError", <<>>)
    /\ UNCHANGED <<answer, plan, rules>>

NextEntry ==
    \/ Execute
    \/ Process
    \/ BrollApply
    \/ RenderScenario

SpecEntry == InitEntry /\ [][NextEntry]_vars

\* ------------------------------------------------------ entry point claims
\* run_tasks was started on the list in result
ReachedRunTasks == outcome = "run_tasks" /\ LastOf(called) = "run_tasks"

\* C21: every task list that reaches run_tasks, through whichever entry point,
\* has first passed through the normalizer and then through
\* validate_and_fix_plan.
C21_NormalisedThenValidated ==
    ReachedRunTasks =>
        \E a \in 1..Len(called), b \in 1..Len(called) :
            /\ a < b
            /\ b < Len(called)
            /\ called[a] = "_normalize_gemini_response"
            /\ called[b] = "validate_and_fix_plan"

\* /process has run _normalize_gemini_response on the collaborator's answer
ResponseNormalised == entry.point = "/process" /\ outcome # "pending"

\* the objects of the collaborator's answer, in their order
AnswerObjects == SelectSeq(entry.payload, LAMBDA t : t.object)

\* the seconds a timestamp string stands for by the rule MM:SS, HH:MM:SS
IsClockText(v) ==
    /\ v.kind = "text"
    /\ Len(v.parts) \in {2, 3}
    /\ \A k \in 1..Len(v.parts) : v.parts[k] # NotANumber

ClockSeconds(v) ==
    IF Len(v.parts) = 2 THEN 60 * v.parts[1] + v.parts[2]
    ELSE 3600 * v.parts[1] + 60 * v.parts[2] + v.parts[3]

TimeNormalised(before, after) ==
    /\ after.kind # "text"
    /\ before.kind = "num" => after = before
    /\ IsClockText(before) => after = Num(100 * ClockSeconds(before))

\* C34: after normalization every timestamp parameter of every retained task
\* is a number of seconds ("MM:SS" as 60*MM+SS, "HH:MM:SS" as
\* 3600*HH+60*MM+SS, a number as it was), never a string.
C34_TimestampsNumeric ==
    ResponseNormalised =>
        /\ Len(answer) = Len(AnswerObjects)
        /\ \A k \in 1..Len(answer) :
              /\ TimeNormalised(AnswerObjects[k].start_time, answer[k].start_time)
              /\ TimeNormalised(AnswerObjects[k].end_time, answer[k].end_time)

\* the normalizer can give the entry the shape of a task: it is an object
\* and names its kind under "type" or one of the accepted spellings
Coercible(t) == t.object /\ t.key \in {"type"} \cup TypeAliases

\* C35: an entry the normalizer cannot coerce into a task (not an object, or
\* an object without type under any accepted key) is dropped without failing
\* plan generation, and the other entries are kept in their order.
C35_UncoercibleDropped ==
    ResponseNormalised =>
        LET kept == SelectSeq(entry.payload, Coercible)
        IN  /\ Len(answer) = Len(kept)
            /\ \A k \in 1..Len(answer) :
                  /\ answer[k].type = kept[k].type
                  /\ answer[k].filled = kept[k].filled
            /\ outcome = "ValidationError" =>
                  \E k \in 1..Len(kept) : kept[k].type \notin TaskType

\* =========================================================================
\* More claims about validate_and_fix_plan, under SpecPlan
\* =========================================================================

\* the duration an overlay declares, a missing time read as gemini.py:395-396
\* reads it
DeclaredDuration(t, r) ==
    LET start == IF t.start_time = NoTime THEN 0 ELSE t.start_time
        end == IF t.end_time = NoTime THEN start + r.min_duration ELSE t.end_time
    IN  end - start

WithinBounds(t, r) ==
    /\ r.min_duration <= DeclaredDuration(t, r)
    /\ DeclaredDuration(t, r) <= r.max_duration

\* C31: after validate_and_fix_plan every overlay_video task has a duration
\* within [min_duration, max_duration], reached by changing end_time only, and
\* an overlay that was within bounds is left as it was.
C31_OverlayDurationClamped ==
    FirstPassReturned =>
        LET before == Overlays(plan)
            after == Overlays(result)
        IN  \A n \in 1..Len(after) :
              /\ WithinBounds(after[n], rules)
              /\ after[n].start_time = before[n].start_time
              /\ after[n].stock_id = before[n].stock_id
              /\ WithinBounds(before[n], rules) => after[n] = before[n]

\* C32: after validate_and_fix_plan no two tasks carry the same output_id, also
\* when an assigned stock_N is an id that another task already declares.
C32_OutputIdsUnique ==
    FirstPassReturned =>
        \A j \in 1..Len(result), k \in 1..Len(result) :
            (j # k /\ result[j].output_id # "") =>
                result[j].output_id # result[k].output_id

IsTrim(t) == t.type = "trim"
IsConcat(t) == t.type = "concat"

\* a trim + concat assembly: a concat, a fetched clip, and no overlay
HasAssembly(ts) ==
    /\ \E k \in 1..Len(ts) : IsConcat(ts[k])
    /\ \E k \in 1..Len(ts) : IsFetch(ts[k])
    /\ \A k \in 1..Len(ts) : ~IsOverlay(ts[k])

\* the gaps between consecutive trim windows, in list order
Gaps(ts) ==
    LET trims == SelectSeq(ts, IsTrim)
    IN  { <<trims[n].end_time, trims[n + 1].start_time>> :
            n \in {m \in 1..(Len(trims) - 1) :
                     trims[m].end_time < trims[m + 1].start_time} }

\* the names of the trim and fetch tasks, in list order
ClipNames(ts) ==
    LET clips == SelectSeq(ts, LAMBDA t : IsTrim(t) \/ IsFetch(t))
    IN  [n \in 1..Len(clips) |-> clips[n].output_id]

\* C33: a trim + concat assembly is rewritten: every gap between consecutive
\* trim windows becomes an overlay of a fetched clip on the source and no
\* concat is left; without gaps a single concat interleaves the clips in order.
C33_AssemblyRewritten ==
    (FirstPassReturned /\ HasAssembly(plan)) =>
        IF Gaps(plan) # {}
        THEN /\ \A k \in 1..Len(result) : ~IsConcat(result[k])
             /\ \A g \in Gaps(plan) :
                  \E k \in 1..Len(result) :
                     /\ IsOverlay(result[k])
                     /\ result[k].start_time = g[1]
                     /\ result[k].end_time = g[2]
                     /\ \E j \in 1..Len(result) :
                           IsFetch(result[j]) /\ result[j].output_id = result[k].stock_id
        ELSE /\ Len(SelectSeq(result, IsConcat)) = 1
             /\ SelectSeq(result, IsConcat)[1].inputs = ClipNames(result)

IsOther(t) == ~IsFetch(t) /\ ~IsOverlay(t)

\* what the validator never changes in a task
Kept(ts) == [k \in 1..Len(ts) |-> <<ts[k].type, ts[k].start_time, ts[k].stock_id>>]

\* C38: validate_and_fix_plan keeps the relative order of the tasks it retains,
\* and returns every task that is neither a fetch nor an overlay_video as it
\* was; it never removes such a task.
C38_OthersUntouchedOrderKept ==
    FirstPassReturned =>
        /\ IsSubSeq(Kept(result), Kept(plan))
        /\ SelectSeq(result, IsOther) = SelectSeq(plan, IsOther)

\* a truncation that went around a trim
C38_Witness ==
    /\ FirstPassReturned
    /\ Len(result) < Len(plan)
    /\ Len(plan) = 3
    /\ IsOther(plan[2])
    /\ \E k \in 1..Len(result) : IsOther(result[k])

\* =========================================================================
\* Scenario validation: services/scenario_service.py validate_scenario.
\* =========================================================================

\* longest scene list of a scenario
MaxScenes == 3

Scene(id, start_sec, end_sec) == [id |-> id, start_sec |-> start_sec, end_sec |-> end_sec]

\* a segment of a layer: the scene it names, whether its uploaded asset is one
\* of the project's, and where it ends
LayerSegment(scene_id, asset_known, end_sec) ==
    [scene_id |-> scene_id, asset_known |-> asset_known, end_sec |-> end_sec]

\* sorted(scenes, key=start_sec): the positions of scenes in sorted order;
\* Python's sort is stable
RECURSIVE SortedPositions(_, _)
SortedPositions(scenes, left) ==
    IF left = {} THEN <<>>
    ELSE LET first == CHOOSE k \in left :
                         \A j \in left :
                            \/ scenes[k].start_sec < scenes[j].start_sec
                            \/ scenes[k].start_sec = scenes[j].start_sec /\ k <= j
         IN  <<first>> \o SortedPositions(scenes, left \ {first})

SortedScenes(scenes) ==
    LET at == SortedPositions(scenes, DOMAIN scenes)
    IN  [n \in 1..Len(scenes) |-> scenes[at[n]]]

\* scenario_service.py:45-46
EmptyErrors(sc) ==
    IF sc.scenes = <<>> /\ sc.segments = <<>> THEN <<[kind |-> "empty"]>> ELSE <<>>

\* scenario_service.py:50-57
RangeErrors(sc) ==
    LET bad == SelectSeq(sc.scenes, LAMBDA x : x.start_sec >= x.end_sec)
    IN  [n \in 1..Len(bad) |-> [kind |-> "range", scene |-> bad[n].id]]

\* scenario_service.py:59-65: the scenes are walked in sorted order, and the
\* i-th of them is compared with scenario.scenes[i - 1], the scene listed
\* before position i
OverlapErrors(sc) ==
    LET sorted == SortedScenes(sc.scenes)
        hit == SelectSeq([n \in 1..Len(sorted) |-> n],
                         LAMBDA n : n > 1 /\ sc.scenes[n - 1].end_sec > sorted[n].start_sec)
    IN  [n \in 1..Len(hit) |->
            [kind |-> "overlap", a |-> sc.scenes[hit[n] - 1].id, b |-> sorted[hit[n]].id]]

\* scenario_service.py:67-85, per segment
SegmentErrors(sc) ==
    LET scene_ids == {sc.scenes[k].id : k \in 1..Len(sc.scenes)}
        of(seg) ==
            (IF seg.scene_id # "" /\ seg.scene_id \notin scene_ids
             THEN <<[kind |-> "scene_id", scene |-> seg.scene_id]>> ELSE <<>>)
            \o (IF ~seg.asset_known THEN <<[kind |-> "asset"]>> ELSE <<>>)
    IN  IF sc.segments = <<>> THEN <<>> ELSE of(sc.segments[1])

\* scenario_service.py:87-100
DurationErrors(sc) ==
    LET max_end == IF sc.segments = <<>> THEN 0 ELSE Max(0, sc.segments[1].end_sec)
        diff == sc.total_duration_sec - max_end
    IN  IF sc.total_duration_sec # NoTime /\ (diff > 10 \/ diff < -10)
        THEN <<[kind |-> "total_duration"]>> ELSE <<>>

\* scenario_service.py:35-102
validate_scenario(sc) ==
    EmptyErrors(sc) \o RangeErrors(sc) \o OverlapErrors(sc) \o SegmentErrors(sc)
        \o DurationErrors(sc)

\* ----------------------------------------------------- inputs of the calls
ScenePool ==
    { Scene("a", 0, 1000), Scene("b", 1000, 2000), Scene("c", 1500, 2500),
      Scene("d", 1000, 1200), Scene("e", 3000, 3000) }

Scenarios ==
    [scenes : SeqsUpTo(ScenePool, MaxScenes),
     segments : {<<>>, <<LayerSegment("a", TRUE, 2000)>>,
                 <<LayerSegment("zz", FALSE, 2500)>>},
     total_duration_sec : {NoTime, 2000}]

InitScenario ==
    /\ ExecutorIdle
    /\ RunsIdle
    /\ FetchIdle
    /\ segments = <<>>
    /\ video_duration = 0
    /\ rules = <<>>
    /\ answer = <<>>
    /\ plan = <<>>
    /\ called = <<>>
    /\ result = <<>>
    /\ outcome = "pending"
    /\ entry \in [point : {"validate_scenario"}, payload : Scenarios]

\* validate_scenario(scenario, assets)
CallValidateScenario ==
    /\ outcome = "pending"
    /\ entry.point = "validate_scenario"
    /\ called' = <<"validate_scenario">>
    /\ result' = validate_scenario(entry.payload)
    /\ outcome' = "returned"
    /\ UNCHANGED <<segments, video_duration, rules, answer, plan, entry, inflight>>
    /\ UNCHANGED fetchVars
    /\ UNCHANGED execVars

NextScenario == CallValidateScenario

SpecScenario == InitScenario /\ [][NextScenario]_vars

\* ---------------------------------------------------------- scenario claims
ScenarioValidated == outcome = "returned" /\ called = <<"validate_scenario">>

ReportsOverlap == \E k \in 1..Len(result) : result[k].kind = "overlap"

\* with the scenes ordered by start_sec, some scene starts before the one
\* before it ends
ScenesOverlap ==
    LET scenes == entry.payload.scenes
    IN  \E j \in 1..Len(scenes), k \in 1..Len(scenes) :
           /\ j # k
           /\ \/ scenes[j].start_sec < scenes[k].start_sec
              \/ scenes[j].start_sec = scenes[k].start_sec /\ j < k
           /\ \A m \in 1..Len(scenes) :
                 m \notin {j, k} =>
                    \/ scenes[m].start_sec < scenes[j].start_sec
                    \/ scenes[m].start_sec = scenes[j].start_sec /\ m < j
                    \/ scenes[m].start_sec > scenes[k].start_sec
                    \/ scenes[m].start_sec = scenes[k].start_sec /\ m > k
           /\ scenes[j].end_sec > scenes[k].start_sec

\* C40: validate_scenario reports 'Scenes overlap' exactly when, with the
\* scenes ordered by start_sec, some scene starts before the scene preceding it
\* ends; disjoint scenes yield no overlap error in whatever order they are
\* listed.
C40_OverlapReportedIffOverlap ==
    ScenarioValidated => (ReportsOverlap <=> ScenesOverlap)

\* =========================================================================
\* Rendering: services/render_service.py render_scenario and
\* scenario_to_render_tasks, on the segments of the video layer.
\* =========================================================================

\* f"broll_{n}"
BrollNames == <<"broll_1", "broll_2", "broll_3", "broll_4">>

\* a segment of the video layer; on_disk: its asset is one of the project's
\* and its file exists
VideoSegment(id, start_sec, end_sec, asset_source, asset_status, asset_id, on_disk) ==
    [id |-> id, start_sec |-> start_sec, end_sec |-> end_sec,
     asset_source |-> asset_source, asset_status |-> asset_status,
     asset_id |-> asset_id, on_disk |-> on_disk]

\* render_service.py:223-229; main_asset_id "" stands for None
is_broll_segment(seg, main_asset_id) ==
    \/ seg.asset_source = "generated"
    \/ seg.asset_status = "pending"
    \/ /\ seg.asset_source = "uploaded"
       /\ seg.asset_status = "ready"
       /\ seg.asset_id # ""
       /\ seg.asset_id # main_asset_id

\* render_service.py:142-147
is_broll(seg, main_asset_id) ==
    \/ seg.asset_source = "generated"
    \/ seg.asset_status = "pending"
    \/ /\ seg.asset_source = "uploaded"
       /\ seg.asset_status = "ready"
       /\ seg.asset_id # ""
       /\ main_asset_id # ""
       /\ seg.asset_id # main_asset_id

\* render_service.py:263-269: the segment's own asset is used as its clip
Prefetched(seg) == seg.asset_status = "ready" /\ seg.asset_id # "" /\ seg.on_disk

\* render_service.py:255-289: the clips of the B-roll segments, numbered in
\* start order; a segment without a usable asset is fetched from the content
\* source
RECURSIVE BrollRegistry(_, _, _)
BrollRegistry(segs, main_asset_id, found) ==
    IF segs = <<>> THEN found
    ELSE IF is_broll_segment(Head(segs), main_asset_id)
    THEN BrollRegistry(Tail(segs), main_asset_id, Append(found, Head(segs).asset_id))
    ELSE BrollRegistry(Tail(segs), main_asset_id, found)

\* render_service.py:270-285 is reached for some B-roll segment
NeedsFetch(segs, main_asset_id) ==
    \E k \in 1..Len(segs) : is_broll_segment(segs[k], main_asset_id) /\ ~Prefetched(segs[k])

\* render_service.py:154-169: an overlay for each B-roll segment whose number
\* is in the registry
RECURSIVE OverlayTasks(_, _, _, _)
OverlayTasks(segs, main_asset_id, broll_registry, broll_idx) ==
    IF segs = <<>> THEN <<>>
    ELSE IF is_broll(Head(segs), main_asset_id) /\ broll_idx + 1 <= Len(broll_registry)
    THEN <<[type |-> "overlay_video", start_time |-> Head(segs).start_sec,
            end_time |-> Head(segs).end_sec, stock_id |-> BrollNames[broll_idx + 1]]>>
         \o OverlayTasks(Tail(segs), main_asset_id, broll_registry, broll_idx + 1)
    ELSE OverlayTasks(Tail(segs), main_asset_id, broll_registry, broll_idx)

\* render_service.py:172-181: one add_text_overlay per scene overlay with text
TextTasks(texts) == [n \in 1..texts |-> [type |-> "add_text_overlay"]]

\* render_service.py:123-183, when it returns
scenario_to_render_tasks(segs, main_asset_id, broll_registry, texts) ==
    OverlayTasks(SortedScenes(segs), main_asset_id, broll_registry, 0) \o TextTasks(texts)

\* ----------------------------------------------------- inputs of the calls
\* the main video, and B-roll segments whose clips are project assets
SegmentPool ==
    { VideoSegment("main", 0, 6000, "uploaded", "ready", "main", TRUE),
      VideoSegment("s1", 1000, 1450, "uploaded", "ready", "clip_x", TRUE),
      VideoSegment("s2", 2500, 2950, "generated", "ready", "clip_y", TRUE),
      VideoSegment("s3", 4000, 4450, "uploaded", "ready", "clip_z", TRUE),
      VideoSegment("s4", 5000, 5450, "generated", "pending", "", FALSE) }

\* a main asset without id (main_asset_id "") is not one that a segment names
Renders ==
    { r \in [segments : SeqsUpTo(SegmentPool, MaxScenes),
             main_asset_id : {"main", ""},
             texts : 0..1] :
        r.main_asset_id = "" =>
            \A k \in 1..Len(r.segments) : r.segments[k].asset_id # "main" }

InitRender ==
    /\ ExecutorIdle
    /\ RunsIdle
    /\ FetchIdle
    /\ segments = <<>>
    /\ video_duration = 0
    /\ rules = <<>>
    /\ answer = <<>>
    /\ plan = <<>>
    /\ called = <<>>
    /\ result = <<>>
    /\ outcome = "pending"
    /\ entry \in [point : {"render_scenario"}, payload : Renders]

Rendered(stages, how, value) ==
    /\ called' = stages
    /\ outcome' = how
    /\ result' = value
    /\ UNCHANGED <<segments, video_duration, rules, answer, plan, entry, inflight>>
    /\ UNCHANGED fetchVars
    /\ UNCHANGED execVars

NoTasks == [tasks |-> <<>>, broll_registry |-> <<>>]

\* render_scenario(project_id, scenario, assets, overlay_style, storage):
\* fetch_stock_media(..., max_width=...) raises TypeError (stock.py:45-52 has
\* no max_width), scenario_to_render_tasks raises ValueError without video
\* segments, and run_tasks(..., initial_registry=...) raises TypeError
\* (executor.py:130 has no initial_registry) on the tasks that were built
CallRenderScenario ==
    /\ outcome = "pending"
    /\ entry.point = "render_scenario"
    /\ LET r == entry.payload
           sorted == SortedScenes(r.segments)
           broll_registry == BrollRegistry(sorted, r.main_asset_id, <<>>)
       IN  IF NeedsFetch(r.segments, r.main_asset_id)
           THEN Rendered(<<"render_scenario", "fetch_stock_media">>, "TypeError", NoTasks)
           ELSE IF r.segments = <<>>
           THEN Rendered(<<"render_scenario", "scenario_to_render_tasks">>,
                         "ValueError", NoTasks)
           ELSE Rendered(<<"render_scenario", "scenario_to_render_tasks", "run_tasks">>,
                         "TypeError",
                         [tasks |-> scenario_to_render_tasks(r.segments, r.main_asset_id,
                                                             broll_registry, r.texts),
                          broll_registry |-> broll_registry])

NextRender == CallRenderScenario

SpecRender == InitRender /\ [][NextRender]_vars

\* ----------------------------------------------------------- render claims
\* the clip registered under a broll_N name
ClipOf(name) ==
    LET n == CHOOSE m \in 1..Len(BrollNames) : BrollNames[m] = name
    IN  result.broll_registry[n]

\* C39: every overlay_video task built by scenario_to_render_tasks pairs the
\* time window of a B-roll segment with the clip that was obtained for that
\* same segment.
C39_OverlayPairsOwnClip ==
    (called # <<>> /\ called[1] = "render_scenario" /\ LastOf(called) = "run_tasks") =>
        \A k \in 1..Len(result.tasks) :
            result.tasks[k].type = "overlay_video" =>
                \E n \in 1..Len(entry.payload.segments) :
                    LET seg == entry.payload.segments[n]
                    IN  /\ seg.start_sec = result.tasks[k].start_time
                        /\ seg.end_sec = result.tasks[k].end_time
                        /\ seg.asset_id = ClipOf(result.tasks[k].stock_id)

\* =========================================================================
\* Skipped tasks of run_tasks, under Spec
\* =========================================================================

\* the step logs its task as skipped for a missing prerequisite
SkipsTask ==
    /\ Len(log') = Len(log) + 1
    /\ log'[Len(log')].event = "skipped"

\* C37: a task that run_tasks skips for a missing prerequisite (subtitles
\* without segments, image overlay without image, concat without clips, fetch
\* without query or without result) publishes nothing: registry, current
\* pointer and recorded transient artifacts are as before the task, also when
\* the task declares an output_id.
C37_SkipPublishesNothing ==
    [][SkipsTask =>
          /\ registry' = registry
          /\ current_path' = current_path
          /\ temp_paths' = temp_paths
          /\ published' = published]_vars

\* a fetch that declares an output_id found nothing and was skipped, after an
\* earlier task had published
C37_Witness ==
    /\ Len(log) >= 2
    /\ Last(log).event = "skipped"
    /\ tasks[Last(log).idx].type \in FetchKinds
    /\ tasks[Last(log).idx].output_id # ""
    /\ tasks[Last(log).idx].params.query
    /\ tasks[Last(log).idx].output_id \notin DOMAIN registry
    /\ Len(published) >= 2

\* =========================================================================
\* Two runs of run_tasks in flight together. The callers run it in worker
\* threads (asyncio.to_thread, main.py:124, 152), each on an output file of
\* its own made by NamedTemporaryFile in the system's temporary directory;
\* run_tasks puts its step files and the fetched media in the directory of
\* that file (executor.py:126-127, 450).
\* =========================================================================
MaxRunTasks == 2

\* the two runs
Runs == {1, 2}

\* a file of the scratch directory: <<prefix, slug, n>>
RunInput(r) == <<"input", "", r>>

\* main.py:115-116, 144-145: NamedTemporaryFile gives a name no other call has
RunOutput(r) == <<"output", "", r>>

\* executor.py:126-127: base.parent / f"{prefix}_{n}{suffix}"; base.parent is
\* the same directory for every run
StepFile(r, prefix, n) == <<prefix, "", n>>

\* stock.py:139-141: dest_dir / f"stock_video_{slug}_{int(time.time())}.mp4"
StockFile(r, slug, n) == <<"stock_video", slug, n>>

RunTask(type, query) == [type |-> type, query |-> query]

RunPool == { RunTask("trim", ""), RunTask("fetch_stock_video", "city") }

RunPlans == SeqsUpTo(RunPool, MaxRunTasks)

\* run_tasks at its first task (executor.py:130-149)
Started(r, plan_) ==
    [tasks |-> plan_, i |-> 1, pc |-> "run", current |-> RunInput(r),
     temp_paths |-> <<>>, written |-> {RunOutput(r)}]

InitRuns ==
    /\ ExecutorIdle
    /\ FetchIdle
    /\ entry = NoEntry
    /\ segments = <<>>
    /\ video_duration = 0
    /\ rules = <<>>
    /\ answer = <<>>
    /\ plan = <<>>
    /\ called = <<>>
    /\ result = <<>>
    /\ outcome = "pending"
    /\ \E plans \in [Runs -> RunPlans] :
          inflight = [runs |-> [r \in Runs |-> Started(r, plans[r])],
                      dir |-> [q \in {RunOutput(r) : r \in Runs} |->
                                  CHOOSE r \in Runs : RunOutput(r) = q]]

RunsStep ==
    /\ UNCHANGED <<segments, video_duration, rules, answer, plan, called, result,
                   outcome, request, sent, fetched, entry>>
    /\ UNCHANGED execVars

\* the file is there for the run to read
Readable(r, q) == q = RunInput(r) \/ q \in DOMAIN inflight.dir

\* the directory after run r wrote file q
WrittenBy(dir, r, q) == [x \in DOMAIN dir \cup {q} |-> IF x = q THEN r ELSE dir[x]]

\* the directory after the files were unlinked (missing_ok)
Without(dir, files) == [x \in DOMAIN dir \ files |-> dir[x]]

AtRunTask(r) ==
    /\ inflight.runs[r].pc = "run"
    /\ inflight.runs[r].i <= Len(inflight.runs[r].tasks)

\* executor.py:240-253 and the other ffmpeg branches: ffmpeg -y writes the
\* step file, overwriting what is there; a failure raises RuntimeError, and
\* the caller's finally unlinks its output file (main.py:117-121)
RunTransform(r) ==
    /\ AtRunTask(r)
    /\ LET run == inflight.runs[r]
           task == run.tasks[run.i]
       IN  /\ task.type \notin FetchKinds
           /\ \E n \in TempIds, ok \in BOOLEAN, partial \in BOOLEAN :
                LET out == StepFile(r, StepPrefix(task.type), n)
                IN  /\ ok => Readable(r, run.current)
                    /\ ok => partial
                    /\ inflight' =
                         IF ok
                         THEN [runs |-> [inflight.runs EXCEPT ![r] =
                                           [run EXCEPT !.i = run.i + 1,
                                                       !.current = out,
                                                       !.temp_paths = Append(run.temp_paths, out),
                                                       !.written = run.written \cup {out}]],
                               dir |-> WrittenBy(inflight.dir, r, out)]
                         ELSE [runs |-> [inflight.runs EXCEPT ![r] =
                                           [run EXCEPT !.pc = "raised",
                                                       !.written = run.written \cup
                                                           (IF partial THEN {out} ELSE {})]],
                               dir |-> Without(IF partial
                                               THEN WrittenBy(inflight.dir, r, out)
                                               ELSE inflight.dir,
                                               {RunOutput(r)})]
    /\ RunsStep

\* executor.py:441-468: the media is downloaded into the directory of the
\* output file and recorded for cleanup; without a result the task is skipped
RunFetchTask(r) ==
    /\ AtRunTask(r)
    /\ LET run == inflight.runs[r]
           task == run.tasks[run.i]
       IN  /\ task.type \in FetchKinds
           /\ \E n \in TempIds, found \in BOOLEAN :
                LET dest == StockFile(r, task.query, n)
                IN  inflight' =
                      IF found
                      THEN [runs |-> [inflight.runs EXCEPT ![r] =
                                        [run EXCEPT !.i = run.i + 1,
                                                    !.temp_paths = Append(run.temp_paths, dest),
                                                    !.written = run.written \cup {dest}]],
                            dir |-> WrittenBy(inflight.dir, r, dest)]
                      ELSE [runs |-> [inflight.runs EXCEPT ![r] = [run EXCEPT !.i = run.i + 1]],
                            dir |-> inflight.dir]
    /\ RunsStep

\* executor.py:473-479 and main.py:117-121: the result is copied to the output
\* file (FileNotFoundError when it is gone), every recorded file is unlinked,
\* the caller saves the output under a fresh key and unlinks the output file
FinishRun(r) ==
    /\ inflight.runs[r].pc = "run"
    /\ inflight.runs[r].i > Len(inflight.runs[r].tasks)
    /\ LET run == inflight.runs[r]
       IN  inflight' =
             IF Readable(r, run.current)
             THEN [runs |-> [inflight.runs EXCEPT ![r] = [run EXCEPT !.pc = "done"]],
                   dir |-> Without(inflight.dir, Range(run.temp_paths) \cup {RunOutput(r)})]
             ELSE [runs |-> [inflight.runs EXCEPT ![r] = [run EXCEPT !.pc = "raised"]],
                   dir |-> Without(inflight.dir, {RunOutput(r)})]
    /\ RunsStep

NextRuns ==
    \/ \E r \in Runs : RunTransform(r)
    \/ \E r \in Runs : RunFetchTask(r)
    \/ \E r \in Runs : FinishRun(r)

SpecRuns == InitRuns /\ [][NextRuns]_vars

\* ------------------------------------------------------- concurrency claims
\* C36: two runs in flight at the same time have disjoint scratch and output
\* namespaces: no file written or fetched by one run is written, overwritten
\* or deleted by the other run. Both runs start together, and a run deletes
\* only files it has written, so while both are running the sets of files
\* they have written are disjoint.
C36_RunsDisjoint ==
    \A a \in Runs, b \in Runs :
        (a # b /\ inflight.runs[a].pc = "run" /\ inflight.runs[b].pc = "run") =>
            inflight.runs[a].written \cap inflight.runs[b].written = {}

====
